---- MODULE Spec2Model ----
(***************************************************************************)
(* A model of the directory reconciliation scripts of tinkertoys:          *)
(*   python/system/keepLargerVersion.py  (duplicate cleanup)               *)
(*   python/system/compareFolders.py     (names only in one tree)          *)
(*   python/system/compareSizes.py       (size mismatches of shared names) *)
(* and of python/keepLargerVersion.py (the cleanup before its rewrite),    *)
(* python/lib/copyFile.py (copy_file_with_backup) and                      *)
(* python/development/timer.py (class Stopwatch).                          *)
(* One behaviour of Spec is one invocation of one script on file trees     *)
(* drawn from small sets.  SpecKeepErr and SpecCsErr run a script beside a *)
(* process that removes files, SpecCsTree compares trees that hold a name  *)
(* in two subdirectories, SpecSpecial scans directories with symbolic      *)
(* links and named pipes, SpecUnmodified runs the comparison scripts on    *)
(* trees nobody else touches, SpecCfReport starts compareFolders.py with   *)
(* an earlier report in place, SpecLegacy runs the old cleanup, SpecCopy   *)
(* is a sequence of copy_file_with_backup calls and SpecTimer a sequence   *)
(* of Stopwatch calls.  Strings that the code inspects (file names,        *)
(* extensions) are sequences of ASCII code points, so that lower(),        *)
(* endswith(), Path.stem / Path.suffix and sorted() are computed as Python *)
(* computes them.                                                          *)
(***************************************************************************)
EXTENDS Integers, Sequences, FiniteSets, TLC

VARIABLES
    script,          \* which script runs
    pc,              \* position inside the script's main()
    args,            \* the parsed command line
    disk,            \* directory argument -> [kind, files]
    raised,          \* the exception that ended the run, or "none"
    exit_code,       \* main()'s return value, -1 while running
    \* keepLargerVersion.py
    dry_run,         \* main: dry_run = not args.execute
    extensions,      \* main: normalised extension list, or None
    duplicates,      \* find_duplicate_names(): insertion-ordered dict
    analyzed,        \* analyze_duplicates(): list of (base_name, file_info)
    decisions,       \* one entry per group processed by remove_duplicate_files
    removed_count,
    error_count,
    \* compareFolders.py
    left_names,
    left_paths,
    right_names,
    right_paths,
    only_in_left,
    only_in_right,
    report,          \* lines written to the output file, or None
    \* compareSizes.py
    left_files,      \* dict filename -> full path
    right_files,
    matches,
    mismatches,
    total_matches,
    copy_script,     \* entries of the generated copy script, or None
    \* what happened during the run
    vanished,        \* paths another process removed while the script ran
    unlinked,        \* paths remove_duplicate_files has unlinked
    os_errors,       \* number of OSErrors the duplicate cleanup has caught
    calls,           \* the reads compare_files has made: [op, path, ok]
    stat_failed,     \* paths whose stat() raised in analyze_duplicates
    \* python/keepLargerVersion.py
    filenames,       \* main: the stems in walk order
    filepath,        \* main: the paths in walk order
    dupes,           \* main: list_duplicates(filenames)
    removed_paths,   \* the paths main has passed to os.remove, in order
    file_stats,      \* main: file1, file2 and what was read of them last
    \* lib/copyFile.py
    folder,          \* file name -> content of the files that exist
    backup,          \* the backup the running call has taken, or None
    overwritten,     \* contents a destination had when a call found it
    backups,         \* the paths calls have written backups to
    n_calls,         \* calls of copy_file_with_backup made so far
    \* development/timer.py
    start_time,      \* Stopwatch.start_time
    end_time,        \* Stopwatch.end_time
    lap_times,       \* Stopwatch.lap_times
    clock,           \* the next value of timeit.default_timer()
    started,         \* start() was called since construction or reset()
    command          \* the Stopwatch method called last

commonVars == <<script, pc, args, disk, raised, exit_code>>
keepVars == <<dry_run, extensions, duplicates, analyzed, decisions,
              removed_count, error_count>>
cfVars == <<left_names, left_paths, right_names, right_paths,
            only_in_left, only_in_right, report>>
csVars == <<left_files, right_files, matches, mismatches, total_matches,
            copy_script>>
traceVars == <<vanished, unlinked, os_errors, calls, stat_failed>>
legacyVars == <<filenames, filepath, dupes, removed_paths, file_stats>>
copyVars == <<folder, backup, overwritten, backups, n_calls>>
timerVars == <<start_time, end_time, lap_times, clock, started, command>>
libVars == <<legacyVars, copyVars, timerVars>>
vars == <<commonVars, keepVars, cfVars, csVars, traceVars, libVars>>

----------------------------------------------------------------------------
(* Bounds of the model *)

\* at most this many files in the tree given to keepLargerVersion.py
MaxFiles == 3
\* at most this many files in each tree given to a comparison script
MaxTreeFiles == 3
\* at most this many files are removed by another process during a run
MaxVanished == 1
\* at most this many calls of copy_file_with_backup
MaxCalls == 3
\* timeit.default_timer() is read at most this many times
MaxClock == 5

----------------------------------------------------------------------------
(* Python values *)

\* Python's None / an Optional that is absent; Some(x) is a present value
None == <<>>
Some(x) == <<x>>

\* str.lower() on one ASCII code point, and on a string
LowerChar(c) == IF c >= 65 /\ c <= 90 THEN c + 32 ELSE c
Lower(s) == [i \in 1..Len(s) |-> LowerChar(s[i])]

\* str.startswith / str.endswith
StartsWith(s, prefix) ==
    /\ Len(prefix) <= Len(s)
    /\ SubSeq(s, 1, Len(prefix)) = prefix
EndsWith(s, suffix) ==
    /\ Len(suffix) <= Len(s)
    /\ SubSeq(s, Len(s) - Len(suffix) + 1, Len(s)) = suffix

\* a < b for Python strings: lexicographic on code points
StrLess(a, b) ==
    \/ /\ Len(a) < Len(b)
       /\ SubSeq(b, 1, Len(a)) = a
    \/ \E i \in 1..Len(a) :
          /\ i <= Len(b)
          /\ SubSeq(a, 1, i - 1) = SubSeq(b, 1, i - 1)
          /\ a[i] < b[i]

SetMax(S) == CHOOSE x \in S : \A y \in S : y <= x
SetMin(S) == CHOOSE x \in S : \A y \in S : x <= y
ToSet(s) == {s[i] : i \in 1..Len(s)}
Perms(S) == {s \in [1..Cardinality(S) -> S] :
                \A i, j \in 1..Cardinality(S) : i # j => s[i] # s[j]}

\* the file names used in the trees
a_mov == <<97, 46, 109, 111, 118>>        \* "a.mov"
b_txt == <<98, 46, 116, 120, 116>>        \* "b.txt"
c_MOV == <<99, 46, 77, 79, 86>>           \* "c.MOV"
v_mp4 == <<118, 46, 109, 112, 52>>        \* "v.mp4"
v_mkv == <<118, 46, 109, 107, 118>>       \* "v.mkv"
c_mp4 == <<99, 46, 109, 112, 52>>         \* "c.mp4"
c_mkv == <<99, 46, 109, 107, 118>>        \* "c.mkv"
\* "fix_mismatches.py"
fix_mismatches_py ==
    <<102, 105, 120, 95, 109, 105, 115, 109, 97, 116, 99, 104, 101, 115, 46, 112, 121>>
dot_mov == <<46, 109, 111, 118>>          \* ".mov"
dot_MOV == <<46, 77, 79, 86>>             \* ".MOV"
dot_mp4 == <<46, 109, 112, 52>>           \* ".mp4"
MKV == <<77, 75, 86>>                     \* "MKV"

\* no step of python/keepLargerVersion.py has been taken
LegacyIdle ==
    /\ filenames = <<>> /\ filepath = <<>> /\ dupes = <<>>
    /\ removed_paths = <<>> /\ file_stats = None

\* lib/copyFile.py has not been called
CopyIdle ==
    /\ folder = <<>> /\ backup = None /\ overwritten = {} /\ backups = {}
    /\ n_calls = 0

\* Stopwatch.__init__
TimerIdle ==
    /\ start_time = None /\ end_time = None /\ lap_times = <<>>
    /\ clock = 0 /\ started = FALSE /\ command = "__init__"

----------------------------------------------------------------------------
(* The file system *)

\* a directory entry that is not a directory: its directory below the root
\* ("" is the root itself), its name, what stat() reports as st_size and
\* st_ctime, its kind ("file", "symlink" to a regular file, or "fifo"), the
\* byte its content is made of, and whether open() is permitted
Entry(d, n, s, t, k, b, r) ==
    [dir |-> d, name |-> n, size |-> s, ctime |-> t, kind |-> k, fill |-> b,
     readable |-> r]
\* a readable regular file
File(d, n, s, t) == Entry(d, n, s, t, "file", 0, TRUE)
PathOf(f) == [dir |-> f.dir, name |-> f.name]
\* Path.is_file(): a regular file, or a symbolic link that leads to one
IsFile(f) == f.kind \in {"file", "symlink"}

\* the trees over a set of paths: every path at most once, at most max files
Trees(paths, sizes, ctimes, max) ==
    {t \in SUBSET {File(p.dir, p.name, s, c) : p \in paths, s \in sizes, c \in ctimes} :
        /\ Cardinality(t) <= max
        /\ \A f, g \in t : PathOf(f) = PathOf(g) => f = g}

\* what a directory argument names: a directory with files, a plain file,
\* or nothing
Roots(trees) ==
    {[kind |-> "dir", files |-> t] : t \in trees}
      \cup {[kind |-> "file", files |-> {}], [kind |-> "missing", files |-> {}]}

\* the subdirectories in any order, each with its own files in any order
RECURSIVE DirOrders(_, _)
DirOrders(files, dirs) ==
    IF dirs = {} THEN {<<>>}
    ELSE UNION {{a \o b : a \in Perms({f \in files : f.dir = d}),
                          b \in DirOrders(files, dirs \ {d})} : d \in dirs}

\* os.walk() / Path.rglob(): a directory's own files in the order the file
\* system lists them (any order), before the files of its subdirectories,
\* which are visited in the order the file system lists them
WalkOrders(files) ==
    LET top == {f \in files : f.dir = ""}
    IN  {a \o b : a \in Perms(top),
                  b \in DirOrders(files, {f.dir : f \in files \ top})}

\* pathlib: PurePath.suffix and PurePath.stem of a file name
LastDot(name) ==
    LET dots == {i \in 1..Len(name) : name[i] = 46}
    IN  IF dots = {} THEN 0 ELSE SetMax(dots)
Suffix(name) ==
    LET i == LastDot(name)
    IN  IF 1 < i /\ i < Len(name) THEN SubSeq(name, i, Len(name)) ELSE <<>>
Stem(name) ==
    LET i == LastDot(name)
    IN  IF 1 < i /\ i < Len(name) THEN SubSeq(name, 1, i - 1) ELSE name


----------------------------------------------------------------------------
(* keepLargerVersion.py *)

KeepSizes == {100, 200}
KeepCTimes == {3, 5}
KeepPaths == {[dir |-> "", name |-> v_mp4], [dir |-> "", name |-> v_mkv],
              [dir |-> "sub", name |-> v_mp4], [dir |-> "", name |-> c_mp4]}
\* the values of --extensions tried: absent, or ".mp4 MKV"
KeepExtensionArgs == {None, <<dot_mp4, MKV>>}

\* main: extensions = [ext.lower() if ext.startswith('.') else '.' + ext.lower()]
NormaliseExtensions(raw) ==
    IF raw = None THEN None
    ELSE [i \in 1..Len(raw) |->
            IF StartsWith(raw[i], <<46>>) THEN Lower(raw[i])
            ELSE <<46>> \o Lower(raw[i])]

\* name_to_paths[base_name].append(file_path) on an insertion-ordered dict,
\* kept as a sequence of [name, paths]
DictAppend(d, k, v) ==
    IF \E i \in 1..Len(d) : d[i].name = k
    THEN [i \in 1..Len(d) |->
            IF d[i].name = k THEN [d[i] EXCEPT !.paths = Append(@, v)] ELSE d[i]]
    ELSE Append(d, [name |-> k, paths |-> <<v>>])

\* the loop of find_duplicate_names over the files in walk order
RECURSIVE NameToPaths(_, _)
NameToPaths(order, exts) ==
    IF order = <<>> THEN <<>>
    ELSE LET f == order[Len(order)]
             before == NameToPaths(SubSeq(order, 1, Len(order) - 1), exts)
         IN  IF ~IsFile(f) THEN before
             ELSE IF exts # <<>> /\ Lower(Suffix(f.name)) \notin ToSet(exts)
             THEN before
             ELSE DictAppend(before, Stem(f.name), PathOf(f))

\* a find_duplicate_names that returns every stem, shared or not
find_duplicate_names_keeps_singles(root, exts, order) ==
    IF root.kind # "dir" THEN [raised |-> "ValueError", duplicates |-> <<>>]
    ELSE [raised |-> "none", duplicates |-> NameToPaths(order, exts)]

\* find_duplicate_names(search_path, extensions), the walk delivering the
\* files in the given order
find_duplicate_names(root, exts, order) ==
    IF root.kind = "missing" THEN [raised |-> "ValueError", duplicates |-> <<>>]
    ELSE IF root.kind # "dir" THEN [raised |-> "ValueError", duplicates |-> <<>>]
    ELSE [raised |-> "none",
          duplicates |-> SelectSeq(NameToPaths(order, exts),
                                   LAMBDA e : Len(e.paths) > 1)]

\* file_path exists in files
Exists(files, p) == \E f \in files : PathOf(f) = p

\* file_path.stat() for a path that exists in files
Stat(files, p) == CHOOSE f \in files : PathOf(f) = p

\* an analyze_duplicates that keeps a group of one file
analyze_duplicates_keeps_lone_file(dups, files) ==
    LET info(paths) ==
            LET there == SelectSeq(paths, LAMBDA p : Exists(files, p))
            IN  [i \in 1..Len(there) |->
                    [path |-> there[i],
                     size |-> Stat(files, there[i]).size,
                     ctime |-> Stat(files, there[i]).ctime]]
        all == [i \in 1..Len(dups) |->
                    [base_name |-> dups[i].name, file_info |-> info(dups[i].paths)]]
    IN  SelectSeq(all, LAMBDA g : Len(g.file_info) > 0)

\* analyze_duplicates(duplicates): a path whose stat() raises OSError is
\* warned about and left out of its group
analyze_duplicates(dups, files) ==
    LET info(paths) ==
            LET there == SelectSeq(paths, LAMBDA p : Exists(files, p))
            IN  [i \in 1..Len(there) |->
                    [path |-> there[i],
                     size |-> Stat(files, there[i]).size,
                     ctime |-> Stat(files, there[i]).ctime]]
        all == [i \in 1..Len(dups) |->
                    [base_name |-> dups[i].name, file_info |-> info(dups[i].paths)]]
    IN  SelectSeq(all, LAMBDA g : Len(g.file_info) > 1)

\* the paths on which analyze_duplicates lands in "except OSError"
StatFailures(dups, files) ==
    {p \in UNION {ToSet(dups[i].paths) : i \in 1..Len(dups)} : ~Exists(files, p)}

\* the number of times analyze_duplicates lands in "except OSError"
RECURSIVE AnalyzeStatErrors(_, _)
AnalyzeStatErrors(dups, files) ==
    IF dups = <<>> THEN 0
    ELSE Len(SelectSeq(Head(dups).paths, LAMBDA p : ~Exists(files, p)))
           + AnalyzeStatErrors(Tail(dups), files)

\* a sort key that puts the smaller file first
SortKeyLessSmallerFirst(a, b) ==
    \/ a.size < b.size
    \/ a.size = b.size /\ a.ctime < b.ctime

\* a sort key that looks at the size only
SortKeyLessSizeOnly(a, b) == a.size > b.size

\* the sort key of decide_which_to_keep: key(a) < key(b) for
\* key = lambda x: (-x[1], x[2])
SortKeyLess(a, b) ==
    \/ a.size > b.size
    \/ a.size = b.size /\ a.ctime < b.ctime

\* sorted(): a stable sort; x goes behind every element whose key is not greater
RECURSIVE InsertSorted(_, _)
InsertSorted(x, s) ==
    IF s = <<>> THEN <<x>>
    ELSE IF SortKeyLess(x, Head(s)) THEN <<x>> \o s
    ELSE <<Head(s)>> \o InsertSorted(x, Tail(s))
RECURSIVE Sorted(_)
Sorted(s) ==
    IF s = <<>> THEN <<>>
    ELSE InsertSorted(s[Len(s)], Sorted(SubSeq(s, 1, Len(s) - 1)))

\* decide_which_to_keep with the slice of remove_files off by one
decide_which_to_keep_slice2(file_info) ==
    LET sorted_files == Sorted(file_info)
    IN  [keep_file |-> sorted_files[1].path,
         remove_files |-> [i \in 1..(Len(sorted_files) - 2) |-> sorted_files[i + 2].path]]

\* decide_which_to_keep(file_info)
decide_which_to_keep(file_info) ==
    LET sorted_files == Sorted(file_info)
    IN  [keep_file |-> sorted_files[1].path,
         remove_files |-> [i \in 1..(Len(sorted_files) - 1) |-> sorted_files[i + 1].path]]

\* a removal loop that unlinks whatever dry_run says
RemoveFilesAlways(files, remove_files, dry) ==
    [files |-> {f \in files : PathOf(f) \notin ToSet(remove_files)},
     removed |-> Len(remove_files),
     errors |-> 0,
     unlinked |-> ToSet(remove_files),
     printed |-> <<>>]

\* a removal loop that stops after the first file of the list
RemoveFilesFirstOnly(files, remove_files, dry) ==
    LET first == SubSeq(remove_files, 1, 1)
    IN  [files |-> IF dry THEN files
                   ELSE {f \in files : PathOf(f) \notin ToSet(first)},
         removed |-> Len(first),
         errors |-> 0,
         unlinked |-> IF dry THEN {} ELSE ToSet(first),
         printed |-> <<>>]

\* the removal loop of remove_duplicate_files for one group: the files left
\* on disk, the number counted as removed, the number of OSErrors caught
\* (remove_file.stat() of a file that is gone), the paths unlinked and the
\* lines printed
RemoveFiles(files, remove_files, dry) ==
    LET there == SelectSeq(remove_files, LAMBDA p : Exists(files, p))
    IN  [files |-> IF dry THEN files
                   ELSE {f \in files : PathOf(f) \notin ToSet(there)},
         removed |-> Len(there),
         errors |-> Len(remove_files) - Len(there),
         unlinked |-> IF dry THEN {} ELSE ToSet(there),
         printed |-> [i \in 1..Len(remove_files) |->
                        IF ~Exists(files, remove_files[i])
                        THEN [line |-> "Error removing", path |-> remove_files[i],
                              size |-> -1]
                        ELSE [line |-> IF dry THEN "[DRY RUN] Would remove"
                                       ELSE "Removed",
                              path |-> remove_files[i],
                              size |-> Stat(files, remove_files[i]).size]]]

\* the lines remove_duplicate_files prints for one group before the removal
\* loop: the group, with --verbose the status and size of every file, and the
\* kept file with its size
DecisionLines(base_name, file_info, keep_file, keep_size, verbose) ==
    <<[line |-> "Processing duplicate group", path |-> base_name, size |-> -1]>>
      \o (IF verbose
          THEN [i \in 1..Len(file_info) |->
                   [line |-> IF file_info[i].path = keep_file THEN "KEEP" ELSE "REMOVE",
                    path |-> file_info[i].path,
                    size |-> file_info[i].size]]
          ELSE <<>>)
      \o <<[line |-> "Keeping", path |-> keep_file, size |-> keep_size]>>

InitKeep ==
    /\ script = "keepLargerVersion"
    /\ pc = "main"
    /\ args \in [execute : BOOLEAN, extensions : KeepExtensionArgs,
                 verbose : BOOLEAN]
    /\ disk \in [search : Roots(Trees(KeepPaths, KeepSizes, KeepCTimes, MaxFiles))]
    /\ raised = "none"
    /\ exit_code = -1
    /\ dry_run = TRUE
    /\ extensions = None
    /\ duplicates = <<>>
    /\ analyzed = <<>>
    /\ decisions = <<>>
    /\ removed_count = 0
    /\ error_count = 0
    /\ left_names = <<>> /\ left_paths = <<>>
    /\ right_names = <<>> /\ right_paths = <<>>
    /\ only_in_left = <<>> /\ only_in_right = <<>>
    /\ report = None
    /\ copy_script = None
    /\ left_files = <<>> /\ right_files = <<>>
    /\ matches = {} /\ mismatches = <<>> /\ total_matches = 0
    /\ vanished = {} /\ unlinked = {} /\ os_errors = 0 /\ calls = {}
    /\ stat_failed = {}
    /\ LegacyIdle /\ CopyIdle /\ TimerIdle

\* main, up to the call of remove_duplicate_files
KeepParseArgs ==
    /\ script = "keepLargerVersion" /\ pc = "main"
    /\ dry_run' = ~args.execute
    /\ extensions' = NormaliseExtensions(args.extensions)
    /\ pc' = "find"
    /\ UNCHANGED <<script, args, disk, raised, exit_code>>
    /\ UNCHANGED <<duplicates, analyzed, decisions, removed_count, error_count>>
    /\ UNCHANGED <<cfVars, csVars>>
    /\ UNCHANGED traceVars
    /\ UNCHANGED libVars

\* remove_duplicate_files: find_duplicate_names and the early return; a
\* ValueError is caught by main's except Exception
KeepFindDuplicates ==
    /\ script = "keepLargerVersion" /\ pc = "find"
    /\ \E order \in WalkOrders(disk.search.files) :
          LET r == find_duplicate_names(disk.search, extensions, order)
          IN  /\ duplicates' = r.duplicates
              /\ raised' = r.raised
              /\ pc' = IF r.raised # "none" THEN "done"
                       ELSE IF r.duplicates = <<>> THEN "summary"
                       ELSE "analyze"
              /\ exit_code' = IF r.raised # "none" THEN 1 ELSE exit_code
    /\ UNCHANGED <<script, args, disk>>
    /\ UNCHANGED <<dry_run, extensions, analyzed, decisions, removed_count, error_count>>
    /\ UNCHANGED <<cfVars, csVars>>
    /\ UNCHANGED traceVars
    /\ UNCHANGED libVars

\* remove_duplicate_files: analyzed = analyze_duplicates(duplicates)
KeepAnalyze ==
    /\ script = "keepLargerVersion" /\ pc = "analyze"
    /\ analyzed' = analyze_duplicates(duplicates, disk.search.files)
    /\ os_errors' = os_errors + AnalyzeStatErrors(duplicates, disk.search.files)
    /\ stat_failed' = stat_failed \cup StatFailures(duplicates, disk.search.files)
    /\ pc' = IF analyzed' = <<>> THEN "summary" ELSE "process"
    /\ UNCHANGED <<script, args, disk, raised, exit_code>>
    /\ UNCHANGED <<dry_run, extensions, duplicates, decisions, removed_count, error_count>>
    /\ UNCHANGED <<cfVars, csVars>>
    /\ UNCHANGED <<vanished, unlinked, calls>>
    /\ UNCHANGED libVars

\* remove_duplicate_files: one pass of "for base_name, file_info in analyzed";
\* keep_file.stat() stands outside the try block, so its OSError leaves
\* remove_duplicate_files and is caught by main's except Exception
KeepProcessGroup ==
    /\ script = "keepLargerVersion" /\ pc = "process"
    /\ LET g == analyzed[Len(decisions) + 1]
           d == decide_which_to_keep(g.file_info)
           r == RemoveFiles(disk.search.files, d.remove_files, dry_run)
       IN  IF ~Exists(disk.search.files, d.keep_file)
           THEN /\ raised' = "OSError"
                /\ exit_code' = 1
                /\ pc' = "done"
                /\ UNCHANGED <<disk, decisions, removed_count, error_count,
                               unlinked, os_errors>>
           ELSE /\ decisions' = Append(decisions,
                                  [base_name |-> g.base_name,
                                   file_info |-> g.file_info,
                                   keep_file |-> d.keep_file,
                                   remove_files |-> d.remove_files,
                                   printed |-> DecisionLines(g.base_name, g.file_info,
                                                   d.keep_file,
                                                   Stat(disk.search.files, d.keep_file).size,
                                                   args.verbose)
                                                 \o r.printed])
                /\ disk' = [disk EXCEPT !.search.files = r.files]
                /\ removed_count' = removed_count + r.removed
                /\ error_count' = error_count + r.errors
                /\ unlinked' = unlinked \cup r.unlinked
                /\ os_errors' = os_errors + r.errors
                /\ pc' = IF Len(decisions') = Len(analyzed) THEN "summary" ELSE "process"
                /\ UNCHANGED <<raised, exit_code>>
    /\ UNCHANGED <<script, args>>
    /\ UNCHANGED <<dry_run, extensions, duplicates, analyzed>>
    /\ UNCHANGED <<cfVars, csVars>>
    /\ UNCHANGED <<vanished, calls, stat_failed>>
    /\ UNCHANGED libVars

\* main: the summary and "return 0 if errors == 0 else 1"
KeepSummary ==
    /\ script = "keepLargerVersion" /\ pc = "summary"
    /\ exit_code' = IF error_count = 0 THEN 0 ELSE 1
    /\ pc' = "done"
    /\ UNCHANGED <<script, args, disk, raised>>
    /\ UNCHANGED <<keepVars, cfVars, csVars>>
    /\ UNCHANGED traceVars
    /\ UNCHANGED libVars

\* main: except KeyboardInterrupt: return 1
KeepInterrupt ==
    /\ script = "keepLargerVersion" /\ pc # "done"
    /\ raised' = "KeyboardInterrupt"
    /\ exit_code' = 1
    /\ pc' = "done"
    /\ UNCHANGED <<script, args, disk>>
    /\ UNCHANGED <<keepVars, cfVars, csVars>>
    /\ UNCHANGED traceVars
    /\ UNCHANGED libVars

----------------------------------------------------------------------------
(* compareFolders.py and compareSizes.py: the scans *)

ComparePaths == {[dir |-> "", name |-> a_mov], [dir |-> "", name |-> b_txt],
                 [dir |-> "", name |-> c_MOV], [dir |-> "sub", name |-> a_mov]}
\* the values of --filter tried: absent, "", ".mov", ".MOV"
CompareFilterArgs == {None, Some(<<>>), Some(dot_mov), Some(dot_MOV)}

\* os.path.join(root, filename) below the directory argument side
FullPath(side, f) == [root |-> side, dir |-> f.dir, name |-> f.name]

\* "not filter_extension or filename.lower().endswith(filter_extension.lower())"
PassesFilter(filter_extension, filename) ==
    \/ filter_extension = None
    \/ filter_extension[1] = <<>>
    \/ EndsWith(Lower(filename), Lower(filter_extension[1]))

\* scan_directory without the is_dir() test: walking a plain file finds nothing
scan_directory_no_dir_check(side, root, filter_extension, include_subdirs, order) ==
    IF root.kind = "missing"
    THEN [raised |-> "ValueError", filenames |-> <<>>, full_paths |-> <<>>]
    ELSE LET listed == IF include_subdirs THEN order
                       ELSE SelectSeq(order, LAMBDA f : f.dir = "" /\ IsFile(f))
             found == SelectSeq(listed, LAMBDA f : PassesFilter(filter_extension, f.name))
         IN  [raised |-> "none",
              filenames |-> [i \in 1..Len(found) |-> found[i].name],
              full_paths |-> [i \in 1..Len(found) |-> FullPath(side, found[i])]]

\* scan_directory with a case-sensitive filter test
scan_directory_case_sensitive(side, root, filter_extension, include_subdirs, order) ==
    IF root.kind # "dir"
    THEN [raised |-> "ValueError", filenames |-> <<>>, full_paths |-> <<>>]
    ELSE LET listed == IF include_subdirs THEN order
                       ELSE SelectSeq(order, LAMBDA f : f.dir = "" /\ IsFile(f))
             found == SelectSeq(listed,
                        LAMBDA f : \/ filter_extension = None
                                   \/ filter_extension[1] = <<>>
                                   \/ EndsWith(f.name, filter_extension[1]))
         IN  [raised |-> "none",
              filenames |-> [i \in 1..Len(found) |-> found[i].name],
              full_paths |-> [i \in 1..Len(found) |-> FullPath(side, found[i])]]

\* compareFolders.scan_directory(directory, filter_extension, include_subdirs),
\* the file system delivering the entries in the given order; os.walk() lists
\* every entry that is not a directory, iterdir() the root's own entries, of
\* which those that pass is_file() are taken
scan_directory(side, root, filter_extension, include_subdirs, order) ==
    IF root.kind = "missing"
    THEN [raised |-> "ValueError", filenames |-> <<>>, full_paths |-> <<>>]
    ELSE IF root.kind # "dir"
    THEN [raised |-> "ValueError", filenames |-> <<>>, full_paths |-> <<>>]
    ELSE LET listed == IF include_subdirs THEN order
                       ELSE SelectSeq(order, LAMBDA f : f.dir = "" /\ IsFile(f))
             found == SelectSeq(listed, LAMBDA f : PassesFilter(filter_extension, f.name))
         IN  [raised |-> "none",
              filenames |-> [i \in 1..Len(found) |-> found[i].name],
              full_paths |-> [i \in 1..Len(found) |-> FullPath(side, found[i])]]

\* a file map in which the entry walked first keeps its place
RECURSIVE FileMapFirstWins(_, _, _)
FileMapFirstWins(side, order, filter_extension) ==
    IF order = <<>> THEN <<>>
    ELSE LET f == order[Len(order)]
             before == FileMapFirstWins(side, SubSeq(order, 1, Len(order) - 1),
                                        filter_extension)
         IN  IF PassesFilter(filter_extension, f.name) /\ f.name \notin DOMAIN before
             THEN [n \in DOMAIN before \cup {f.name} |->
                      IF n = f.name THEN FullPath(side, f) ELSE before[n]]
             ELSE before

\* file_map[filename] = full_path for the entries os.walk() lists as files
\* (every entry that is not a directory), in walk order: a later entry of the
\* same name replaces the earlier one
RECURSIVE FileMap(_, _, _)
FileMap(side, order, filter_extension) ==
    IF order = <<>> THEN <<>>
    ELSE LET f == order[Len(order)]
             before == FileMap(side, SubSeq(order, 1, Len(order) - 1), filter_extension)
         IN  IF PassesFilter(filter_extension, f.name)
             THEN [n \in DOMAIN before \cup {f.name} |->
                      IF n = f.name THEN FullPath(side, f) ELSE before[n]]
             ELSE before

\* compareSizes.scan_directory_for_comparison(directory, filter_extension)
scan_directory_for_comparison(side, root, filter_extension, order) ==
    IF root.kind = "missing" THEN [raised |-> "ValueError", file_map |-> <<>>]
    ELSE IF root.kind # "dir" THEN [raised |-> "ValueError", file_map |-> <<>>]
    ELSE [raised |-> "none", file_map |-> FileMap(side, order, filter_extension)]

----------------------------------------------------------------------------
(* compareFolders.py *)

\* sorted(list(S)) for a set of strings
RECURSIVE SortedList(_)
SortedList(S) ==
    IF S = {} THEN <<>>
    ELSE LET m == CHOOSE x \in S : \A y \in S \ {x} : StrLess(x, y)
         IN  <<m>> \o SortedList(S \ {m})

\* the same list, last name first
RECURSIVE ReverseSortedList(_)
ReverseSortedList(S) ==
    IF S = {} THEN <<>>
    ELSE LET m == CHOOSE x \in S : \A y \in S \ {x} : StrLess(x, y)
         IN  ReverseSortedList(S \ {m}) \o <<m>>

\* find_differences without the sorted() calls: list(set) in an order that is
\* not the ascending one
find_differences_unsorted(left, right) ==
    [only_in_left |-> ReverseSortedList(left \ right),
     only_in_right |-> ReverseSortedList(right \ left)]

\* find_differences with the second difference taken the wrong way round
find_differences_same_side(left, right) ==
    [only_in_left |-> SortedList(left \ right),
     only_in_right |-> SortedList(left \ right)]

\* find_differences(left_files, right_files, left_dir, right_dir)
find_differences(left, right) ==
    [only_in_left |-> SortedList(left \ right),
     only_in_right |-> SortedList(right \ left)]

\* the lines compare_directories hands to write_differences_report
DifferenceLines(only_left, only_right) ==
    LET names(l) == [i \in 1..Len(l) |-> [kind |-> "name", side |-> "", name |-> l[i]]]
        left_part == IF only_left # <<>>
                     THEN <<[kind |-> "header", side |-> "left", name |-> <<>>]>>
                            \o names(only_left)
                            \o <<[kind |-> "blank", side |-> "", name |-> <<>>]>>
                     ELSE <<>>
        right_part == IF only_right # <<>>
                      THEN <<[kind |-> "header", side |-> "right", name |-> <<>>]>>
                             \o names(only_right)
                      ELSE <<>>
    IN  left_part \o right_part

\* main's exit code that reports success whatever was found
CfExitCodeAlwaysZero(left_count, right_count) == 0

\* main: "return 1 if total_diff > 0 else 0"
CfExitCode(left_count, right_count) ==
    IF left_count + right_count > 0 THEN 1 ELSE 0

\* a report writer that appends whatever it is told
write_differences_report_appends(previous, differences, append_mode) ==
    previous \o differences

\* write_differences_report(differences, output_file, append_mode): the lines
\* of the file afterwards; mode 'a' keeps the previous lines, mode 'w' not
write_differences_report(previous, differences, append_mode) ==
    IF append_mode THEN previous \o differences ELSE differences

InitCf ==
    /\ script = "compareFolders"
    /\ pc = "main"
    /\ args \in [filter : CompareFilterArgs, no_subdirs : BOOLEAN]
    /\ disk \in [left : Roots(Trees(ComparePaths, {10}, {3}, MaxTreeFiles)),
                 right : Roots(Trees(ComparePaths, {10}, {3}, MaxTreeFiles))]
    /\ raised = "none"
    /\ exit_code = -1
    /\ dry_run = TRUE /\ extensions = None
    /\ duplicates = <<>> /\ analyzed = <<>> /\ decisions = <<>>
    /\ removed_count = 0 /\ error_count = 0
    /\ left_names = <<>> /\ left_paths = <<>>
    /\ right_names = <<>> /\ right_paths = <<>>
    /\ only_in_left = <<>> /\ only_in_right = <<>>
    /\ report = None
    /\ copy_script = None
    /\ left_files = <<>> /\ right_files = <<>>
    /\ matches = {} /\ mismatches = <<>> /\ total_matches = 0
    /\ vanished = {} /\ unlinked = {} /\ os_errors = 0 /\ calls = {}
    /\ stat_failed = {}
    /\ LegacyIdle /\ CopyIdle /\ TimerIdle

\* compare_directories: scan_directory(left_dir, ...); a ValueError is caught
\* by main's except Exception
CfScanLeft ==
    /\ script = "compareFolders" /\ pc = "main"
    /\ \E order \in WalkOrders(disk.left.files) :
          LET r == scan_directory("left", disk.left, args.filter, ~args.no_subdirs, order)
          IN  /\ left_names' = r.filenames
              /\ left_paths' = r.full_paths
              /\ raised' = r.raised
              /\ pc' = IF r.raised # "none" THEN "done" ELSE "scan_right"
              /\ exit_code' = IF r.raised # "none" THEN 1 ELSE exit_code
    /\ UNCHANGED <<script, args, disk>>
    /\ UNCHANGED <<right_names, right_paths, only_in_left, only_in_right, report>>
    /\ UNCHANGED <<keepVars, csVars>>
    /\ UNCHANGED traceVars
    /\ UNCHANGED libVars

\* compare_directories: scan_directory(right_dir, ...)
CfScanRight ==
    /\ script = "compareFolders" /\ pc = "scan_right"
    /\ \E order \in WalkOrders(disk.right.files) :
          LET r == scan_directory("right", disk.right, args.filter, ~args.no_subdirs, order)
          IN  /\ right_names' = r.filenames
              /\ right_paths' = r.full_paths
              /\ raised' = r.raised
              /\ pc' = IF r.raised # "none" THEN "done" ELSE "compare"
              /\ exit_code' = IF r.raised # "none" THEN 1 ELSE exit_code
    /\ UNCHANGED <<script, args, disk>>
    /\ UNCHANGED <<left_names, left_paths, only_in_left, only_in_right, report>>
    /\ UNCHANGED <<keepVars, csVars>>
    /\ UNCHANGED traceVars
    /\ UNCHANGED libVars

\* compare_directories: the sets, find_differences, and the early return
CfFindDifferences ==
    /\ script = "compareFolders" /\ pc = "compare"
    /\ LET r == find_differences(ToSet(left_names), ToSet(right_names))
       IN  /\ only_in_left' = r.only_in_left
           /\ only_in_right' = r.only_in_right
           /\ pc' = IF Len(r.only_in_left) + Len(r.only_in_right) = 0
                    THEN "summary" ELSE "report"
    /\ UNCHANGED <<script, args, disk, raised, exit_code>>
    /\ UNCHANGED <<left_names, left_paths, right_names, right_paths, report>>
    /\ UNCHANGED <<keepVars, csVars>>
    /\ UNCHANGED traceVars
    /\ UNCHANGED libVars

\* compare_directories: write_differences_report(..., append_mode=False);
\* main always passes an output file
CfWriteReport ==
    /\ script = "compareFolders" /\ pc = "report"
    /\ report' = write_differences_report(
                     report, DifferenceLines(only_in_left, only_in_right), FALSE)
    /\ pc' = "summary"
    /\ UNCHANGED <<script, args, disk, raised, exit_code>>
    /\ UNCHANGED <<left_names, left_paths, right_names, right_paths,
                   only_in_left, only_in_right>>
    /\ UNCHANGED <<keepVars, csVars>>
    /\ UNCHANGED traceVars
    /\ UNCHANGED libVars

\* main: the summary and the exit code
CfSummary ==
    /\ script = "compareFolders" /\ pc = "summary"
    /\ exit_code' = CfExitCode(Len(only_in_left), Len(only_in_right))
    /\ pc' = "done"
    /\ UNCHANGED <<script, args, disk, raised>>
    /\ UNCHANGED <<keepVars, cfVars, csVars>>
    /\ UNCHANGED traceVars
    /\ UNCHANGED libVars

\* main: except KeyboardInterrupt: return 1
CfInterrupt ==
    /\ script = "compareFolders" /\ pc # "done"
    /\ raised' = "KeyboardInterrupt"
    /\ exit_code' = 1
    /\ pc' = "done"
    /\ UNCHANGED <<script, args, disk>>
    /\ UNCHANGED <<keepVars, cfVars, csVars>>
    /\ UNCHANGED traceVars
    /\ UNCHANGED libVars

----------------------------------------------------------------------------
(* compareSizes.py *)

\* the entries a full path names: one, or none when the file is gone
Lookup(d, path) ==
    {f \in d[path.root].files : f.dir = path.dir /\ f.name = path.name}

\* os.path.getsize(path): st_size, or an OSError when nothing is at the path
GetSize(d, path) ==
    IF Lookup(d, path) = {} THEN [ok |-> FALSE, value |-> "OSError"]
    ELSE [ok |-> TRUE, value |-> (CHOOSE f \in Lookup(d, path) : TRUE).size]

\* hash_for_file: the algorithms it knows and its default block_size
HashAlgorithms == {"blake2b", "sha256", "sha1", "md5"}
block_size == 8192

\* the bytes of a file
Data(f) == [i \in 1..f.size |-> f.fill]

\* iter(lambda: f.read(block_size), b""): the chunks read until the empty one
RECURSIVE Chunks(_, _)
Chunks(data, n) ==
    IF data = <<>> THEN <<>>
    ELSE IF Len(data) <= n THEN <<data>>
    ELSE <<SubSeq(data, 1, n)>> \o Chunks(SubSeq(data, n + 1, Len(data)), n)

\* hasher.update(chunk) for every chunk: the bytes the hasher has been fed
RECURSIVE Updated(_)
Updated(chunks) ==
    IF chunks = <<>> THEN <<>> ELSE Head(chunks) \o Updated(Tail(chunks))

\* hasher.hexdigest(): a digest without collisions names the algorithm and
\* the bytes fed
HexDigest(algorithm, bytes) == [algorithm |-> algorithm, bytes |-> bytes]

\* hash_for_file(file_path, algorithm): the digest, a ValueError for an
\* unknown algorithm, or the RuntimeError made of the OSError of open()/read()
hash_for_file(d, path, algorithm) ==
    IF algorithm \notin HashAlgorithms THEN [ok |-> FALSE, value |-> "ValueError"]
    ELSE IF Lookup(d, path) = {} THEN [ok |-> FALSE, value |-> "RuntimeError"]
    ELSE LET f == CHOOSE g \in Lookup(d, path) : TRUE
         IN  IF ~f.readable THEN [ok |-> FALSE, value |-> "RuntimeError"]
             ELSE [ok |-> TRUE,
                   value |-> HexDigest(algorithm, Updated(Chunks(Data(f), block_size)))]

\* the two reads that hash every pair, whatever use_checksum says
ReadPairAlwaysHash(d, left_path, right_path, use_checksum, hash_algorithm) ==
    LET l == hash_for_file(d, left_path, hash_algorithm)
        r == hash_for_file(d, right_path, hash_algorithm)
    IN  [left |-> l, right |-> r,
         calls |-> {[op |-> "hash_for_file", path |-> left_path, ok |-> l.ok]}
                     \cup IF l.ok
                          THEN {[op |-> "hash_for_file", path |-> right_path, ok |-> r.ok]}
                          ELSE {}]

\* the try block of compare_files for one pair: left_value, then right_value
\* unless the first read raised; calls are the reads made
ReadPair(d, left_path, right_path, use_checksum, hash_algorithm) ==
    LET op == IF use_checksum THEN "hash_for_file" ELSE "getsize"
        l == IF use_checksum THEN hash_for_file(d, left_path, hash_algorithm)
             ELSE GetSize(d, left_path)
        r == IF use_checksum THEN hash_for_file(d, right_path, hash_algorithm)
             ELSE GetSize(d, right_path)
    IN  [left |-> l, right |-> r,
         calls |-> {[op |-> op, path |-> left_path, ok |-> l.ok]}
                     \cup IF l.ok THEN {[op |-> op, path |-> right_path, ok |-> r.ok]}
                          ELSE {}]

\* the mismatch tuple (filename, left_path, right_path, left_value, right_value)
Mismatch(filename, left, right, pair) ==
    [filename |-> filename,
     left_path |-> left[filename],
     right_path |-> right[filename],
     left_value |-> pair.left.value,
     right_value |-> pair.right.value]

\* a loop that leaves at the first mismatch it meets
RECURSIVE CompareLoopStopsAtMismatch(_, _, _, _, _, _)
CompareLoopStopsAtMismatch(d, left, right, use_checksum, hash_algorithm, order) ==
    IF order = <<>> THEN [mismatches |-> <<>>, calls |-> {}]
    ELSE LET filename == order[Len(order)]
             before == CompareLoopStopsAtMismatch(d, left, right, use_checksum,
                           hash_algorithm, SubSeq(order, 1, Len(order) - 1))
             pair == ReadPair(d, left[filename], right[filename],
                              use_checksum, hash_algorithm)
         IN  IF before.mismatches # <<>> THEN before
             ELSE [mismatches |->
                      IF pair.left.ok /\ pair.right.ok
                         /\ pair.left.value # pair.right.value
                      THEN <<Mismatch(filename, left, right, pair)>>
                      ELSE <<>>,
                   calls |-> before.calls \cup pair.calls]

\* the loop of compare_files over the matching names in the given order; a
\* pair whose read raised is printed and skipped ("continue")
RECURSIVE CompareLoop(_, _, _, _, _, _)
CompareLoop(d, left, right, use_checksum, hash_algorithm, order) ==
    IF order = <<>> THEN [mismatches |-> <<>>, calls |-> {}]
    ELSE LET filename == order[Len(order)]
             before == CompareLoop(d, left, right, use_checksum, hash_algorithm,
                                   SubSeq(order, 1, Len(order) - 1))
             pair == ReadPair(d, left[filename], right[filename],
                              use_checksum, hash_algorithm)
         IN  [mismatches |->
                 IF pair.left.ok /\ pair.right.ok /\ pair.left.value # pair.right.value
                 THEN Append(before.mismatches, Mismatch(filename, left, right, pair))
                 ELSE before.mismatches,
              calls |-> before.calls \cup pair.calls]

\* compare_files that lists every matching name as a mismatch
compare_files_lists_every_match(d, left, right, use_checksum, hash_algorithm, order) ==
    [matches |-> DOMAIN left \cap DOMAIN right,
     mismatches |-> [i \in 1..Len(order) |->
                        Mismatch(order[i], left, right,
                                 ReadPair(d, left[order[i]], right[order[i]],
                                          use_checksum, hash_algorithm))],
     calls |-> {}]

\* compare_files(left_files, right_files, use_checksum, hash_algorithm), the
\* set of matches iterated in the given order
compare_files(d, left, right, use_checksum, hash_algorithm, order) ==
    LET m == DOMAIN left \cap DOMAIN right
        r == CompareLoop(d, left, right, use_checksum, hash_algorithm, order)
    IN  IF m = {} THEN [matches |-> m, mismatches |-> <<>>, calls |-> {}]
        ELSE [matches |-> m, mismatches |-> r.mismatches, calls |-> r.calls]

\* a copy script that copies from the destination to the source
CopyEntriesReversed(mm) ==
    [i \in 1..Len(mm) |-> [src |-> mm[i].right_path, dst |-> mm[i].left_path]]

\* generate_copy_script: one copy_file_with_backup(left_path, right_path)
\* entry per mismatch
CopyEntries(mm) ==
    [i \in 1..Len(mm) |-> [src |-> mm[i].left_path, dst |-> mm[i].right_path]]

\* the file generate_copy_script leaves at os.path.join(output_dir,
\* script_name): written now, readable, its text abstracted to a length that
\* grows with the number of entries and a content byte no other file has
ScriptFile(mm) ==
    Entry("", fix_mismatches_py, 800 + 80 * Len(mm), 9, "file", 2, TRUE)

\* open(script_path, 'w') in output_dir: the script is created, or replaces
\* the file of that name
WriteScript(files, mm) ==
    {f \in files : ~(f.dir = "" /\ f.name = fix_mismatches_py)} \cup {ScriptFile(mm)}

\* main: "return 1 if mismatches > 0 else 0"
CsExitCode(mismatch_count) == IF mismatch_count > 0 THEN 1 ELSE 0

\* a.mov may have either size, the other files have the first
CsTrees ==
    {t \in Trees(ComparePaths, {10, 20}, {3}, MaxTreeFiles) :
        \A f \in t : f.name # a_mov => f.size = 10}

InitCs ==
    /\ script = "compareSizes"
    /\ pc = "main"
    /\ args \in [filter : CompareFilterArgs, generate_script : BOOLEAN,
                 output : {None, Some("report.txt")},
                 checksum : {FALSE}, hash_algorithm : {"blake2b"}]
    /\ disk \in [left : Roots(CsTrees), right : Roots(CsTrees)]
    /\ raised = "none"
    /\ exit_code = -1
    /\ dry_run = TRUE /\ extensions = None
    /\ duplicates = <<>> /\ analyzed = <<>> /\ decisions = <<>>
    /\ removed_count = 0 /\ error_count = 0
    /\ left_names = <<>> /\ left_paths = <<>>
    /\ right_names = <<>> /\ right_paths = <<>>
    /\ only_in_left = <<>> /\ only_in_right = <<>>
    /\ report = None
    /\ copy_script = None
    /\ left_files = <<>> /\ right_files = <<>>
    /\ matches = {} /\ mismatches = <<>> /\ total_matches = 0
    /\ vanished = {} /\ unlinked = {} /\ os_errors = 0 /\ calls = {}
    /\ stat_failed = {}
    /\ LegacyIdle /\ CopyIdle /\ TimerIdle

\* compare_directories: scan_directory_for_comparison(left_dir, ...)
CsScanLeft ==
    /\ script = "compareSizes" /\ pc = "main"
    /\ \E order \in WalkOrders(disk.left.files) :
          LET r == scan_directory_for_comparison("left", disk.left, args.filter, order)
          IN  /\ left_files' = r.file_map
              /\ raised' = r.raised
              /\ pc' = IF r.raised # "none" THEN "done" ELSE "scan_right"
              /\ exit_code' = IF r.raised # "none" THEN 1 ELSE exit_code
    /\ UNCHANGED <<script, args, disk>>
    /\ UNCHANGED <<right_files, matches, mismatches, total_matches, copy_script>>
    /\ UNCHANGED <<keepVars, cfVars>>
    /\ UNCHANGED traceVars
    /\ UNCHANGED libVars

\* compare_directories: scan_directory_for_comparison(right_dir, ...)
CsScanRight ==
    /\ script = "compareSizes" /\ pc = "scan_right"
    /\ \E order \in WalkOrders(disk.right.files) :
          LET r == scan_directory_for_comparison("right", disk.right, args.filter, order)
          IN  /\ right_files' = r.file_map
              /\ raised' = r.raised
              /\ pc' = IF r.raised # "none" THEN "done" ELSE "compare"
              /\ exit_code' = IF r.raised # "none" THEN 1 ELSE exit_code
    /\ UNCHANGED <<script, args, disk>>
    /\ UNCHANGED <<left_files, matches, mismatches, total_matches, copy_script>>
    /\ UNCHANGED <<keepVars, cfVars>>
    /\ UNCHANGED traceVars
    /\ UNCHANGED libVars

\* compare_directories: compare_files and the early return
CsCompareFiles ==
    /\ script = "compareSizes" /\ pc = "compare"
    /\ \E order \in Perms(DOMAIN left_files \cap DOMAIN right_files) :
          LET r == compare_files(disk, left_files, right_files, args.checksum,
                                  args.hash_algorithm, order)
          IN  /\ matches' = r.matches
              /\ mismatches' = r.mismatches
              /\ calls' = r.calls
              /\ total_matches' = Cardinality(r.matches)
              /\ pc' = IF r.mismatches = <<>> THEN "summary" ELSE "report"
    /\ UNCHANGED <<script, args, disk, raised, exit_code>>
    /\ UNCHANGED <<left_files, right_files, copy_script>>
    /\ UNCHANGED <<keepVars, cfVars>>
    /\ UNCHANGED <<vanished, unlinked, os_errors, stat_failed>>
    /\ UNCHANGED libVars

\* compare_directories: the copy script and the report file, each if requested
CsWriteReport ==
    /\ script = "compareSizes" /\ pc = "report"
    /\ copy_script' = IF args.generate_script THEN CopyEntries(mismatches)
                      ELSE copy_script
    /\ disk' = IF args.generate_script
               THEN [disk EXCEPT !.right.files = WriteScript(@, mismatches)]
               ELSE disk
    /\ report' = IF args.output # None
                 THEN <<[total_matches |-> total_matches,
                         mismatches |-> Len(mismatches)]>> \o mismatches
                 ELSE report
    /\ pc' = "summary"
    /\ UNCHANGED <<script, args, raised, exit_code>>
    /\ UNCHANGED <<left_names, left_paths, right_names, right_paths,
                   only_in_left, only_in_right>>
    /\ UNCHANGED <<left_files, right_files, matches, mismatches, total_matches>>
    /\ UNCHANGED keepVars
    /\ UNCHANGED traceVars
    /\ UNCHANGED libVars

\* main: the summary and the exit code
CsSummary ==
    /\ script = "compareSizes" /\ pc = "summary"
    /\ exit_code' = CsExitCode(Len(mismatches))
    /\ pc' = "done"
    /\ UNCHANGED <<script, args, disk, raised>>
    /\ UNCHANGED <<keepVars, cfVars, csVars>>
    /\ UNCHANGED traceVars
    /\ UNCHANGED libVars

\* main: except KeyboardInterrupt: return 1
CsInterrupt ==
    /\ script = "compareSizes" /\ pc # "done"
    /\ raised' = "KeyboardInterrupt"
    /\ exit_code' = 1
    /\ pc' = "done"
    /\ UNCHANGED <<script, args, disk>>
    /\ UNCHANGED <<keepVars, cfVars, csVars>>
    /\ UNCHANGED traceVars
    /\ UNCHANGED libVars

\* the three scripts on directories that hold symbolic links and named pipes
\* beside regular files
SpecialPaths == {[dir |-> "", name |-> v_mp4], [dir |-> "", name |-> v_mkv]}
SpecialEntries ==
    {Entry(p.dir, p.name, 10, 3, "file", 0, TRUE) : p \in SpecialPaths}
      \cup {Entry(p.dir, p.name, 20, 3, "file", 0, TRUE) : p \in SpecialPaths}
      \cup {Entry(p.dir, p.name, 10, 3, "symlink", 0, TRUE) : p \in SpecialPaths}
      \cup {Entry(p.dir, p.name, 0, 3, "fifo", 0, TRUE) : p \in SpecialPaths}
SpecialTrees ==
    {t \in SUBSET SpecialEntries : \A f, g \in t : PathOf(f) = PathOf(g) => f = g}
SpecialRoots == {[kind |-> "dir", files |-> t] : t \in SpecialTrees}

\* nothing has run yet
ScriptsAtStart ==
    /\ pc = "main"
    /\ raised = "none"
    /\ exit_code = -1
    /\ dry_run = TRUE /\ extensions = None
    /\ duplicates = <<>> /\ analyzed = <<>> /\ decisions = <<>>
    /\ removed_count = 0 /\ error_count = 0
    /\ left_names = <<>> /\ left_paths = <<>>
    /\ right_names = <<>> /\ right_paths = <<>>
    /\ only_in_left = <<>> /\ only_in_right = <<>>
    /\ report = None
    /\ copy_script = None
    /\ left_files = <<>> /\ right_files = <<>>
    /\ matches = {} /\ mismatches = <<>> /\ total_matches = 0
    /\ vanished = {} /\ unlinked = {} /\ os_errors = 0 /\ calls = {}
    /\ stat_failed = {}

\* nothing has run yet, of any program
StartOfRun == ScriptsAtStart /\ LegacyIdle /\ CopyIdle /\ TimerIdle

InitSpecial ==
    /\ \/ /\ script = "keepLargerVersion"
          /\ args \in [execute : BOOLEAN, extensions : {None}, verbose : {FALSE}]
          /\ disk \in [search : SpecialRoots]
       \/ /\ script = "compareFolders"
          /\ args \in [filter : {None}, no_subdirs : BOOLEAN]
          /\ disk \in [left : SpecialRoots, right : SpecialRoots]
       \/ /\ script = "compareSizes"
          /\ args \in [filter : {None}, generate_script : {FALSE}, output : {None},
                       checksum : {FALSE}, hash_algorithm : {"blake2b"}]
          /\ disk \in [left : SpecialRoots, right : SpecialRoots]
    /\ StartOfRun

\* compareSizes.py on trees that hold a name in two subdirectories, and a
\* fix_mismatches.py of their own
CsTreePaths == {[dir |-> "sub1", name |-> a_mov], [dir |-> "sub2", name |-> a_mov],
                [dir |-> "", name |-> fix_mismatches_py]}

InitCsTree ==
    /\ script = "compareSizes"
    /\ pc = "main"
    /\ args \in [filter : {None}, generate_script : BOOLEAN, output : {None},
                 checksum : {FALSE}, hash_algorithm : {"blake2b"}]
    /\ disk \in [left : {[kind |-> "dir", files |-> t] :
                            t \in Trees(CsTreePaths, {10, 20}, {3}, MaxTreeFiles)},
                 right : {[kind |-> "dir", files |-> t] :
                            t \in Trees(CsTreePaths, {10, 20}, {3}, MaxTreeFiles)}]
    /\ raised = "none"
    /\ exit_code = -1
    /\ dry_run = TRUE /\ extensions = None
    /\ duplicates = <<>> /\ analyzed = <<>> /\ decisions = <<>>
    /\ removed_count = 0 /\ error_count = 0
    /\ left_names = <<>> /\ left_paths = <<>>
    /\ right_names = <<>> /\ right_paths = <<>>
    /\ only_in_left = <<>> /\ only_in_right = <<>>
    /\ report = None
    /\ copy_script = None
    /\ left_files = <<>> /\ right_files = <<>>
    /\ matches = {} /\ mismatches = <<>> /\ total_matches = 0
    /\ vanished = {} /\ unlinked = {} /\ os_errors = 0 /\ calls = {}
    /\ stat_failed = {}
    /\ LegacyIdle /\ CopyIdle /\ TimerIdle

\* keepLargerVersion.py while another process removes files, on a directory
\* that can hold two groups of duplicates, one of them of three files
KeepErrPaths == {[dir |-> "", name |-> v_mp4], [dir |-> "", name |-> v_mkv],
                 [dir |-> "sub", name |-> v_mp4],
                 [dir |-> "", name |-> c_mp4], [dir |-> "", name |-> c_mkv]}
KeepErrTrees ==
    {t \in SUBSET {File(p.dir, p.name, s, 3) : p \in KeepErrPaths, s \in KeepSizes} :
        \A f, g \in t : PathOf(f) = PathOf(g) => f = g}

InitKeepErr ==
    /\ script = "keepLargerVersion"
    /\ pc = "main"
    /\ args \in [execute : BOOLEAN, extensions : {None}, verbose : {FALSE}]
    /\ disk \in [search : {[kind |-> "dir", files |-> t] : t \in KeepErrTrees}]
    /\ raised = "none"
    /\ exit_code = -1
    /\ dry_run = TRUE
    /\ extensions = None
    /\ duplicates = <<>>
    /\ analyzed = <<>>
    /\ decisions = <<>>
    /\ removed_count = 0
    /\ error_count = 0
    /\ left_names = <<>> /\ left_paths = <<>>
    /\ right_names = <<>> /\ right_paths = <<>>
    /\ only_in_left = <<>> /\ only_in_right = <<>>
    /\ report = None
    /\ copy_script = None
    /\ left_files = <<>> /\ right_files = <<>>
    /\ matches = {} /\ mismatches = <<>> /\ total_matches = 0
    /\ vanished = {} /\ unlinked = {} /\ os_errors = 0 /\ calls = {}
    /\ stat_failed = {}
    /\ LegacyIdle /\ CopyIdle /\ TimerIdle

\* after find_duplicate_names another process removes a file, so that
\* stat() / unlink() on its path raises OSError
KeepFileVanishes ==
    /\ script = "keepLargerVersion" /\ pc \in {"analyze", "process"}
    /\ Cardinality(vanished) < MaxVanished
    /\ \E f \in disk.search.files :
          /\ disk' = [disk EXCEPT !.search.files = @ \ {f}]
          /\ vanished' = vanished \cup {PathOf(f)}
    /\ UNCHANGED <<script, pc, args, raised, exit_code>>
    /\ UNCHANGED <<keepVars, cfVars, csVars>>
    /\ UNCHANGED <<unlinked, os_errors, calls, stat_failed>>
    /\ UNCHANGED libVars

\* compareSizes.py while another process removes files, on trees of files
\* that differ in size, in content only, or cannot be opened
CsErrPaths == {[dir |-> "", name |-> a_mov], [dir |-> "", name |-> b_txt]}
CsErrEntries ==
    {Entry(p.dir, p.name, 10, 3, "file", 0, TRUE) : p \in CsErrPaths}
      \cup {Entry(p.dir, p.name, 10, 3, "file", 1, TRUE) : p \in CsErrPaths}
      \cup {Entry(p.dir, p.name, 20, 3, "file", 0, TRUE) : p \in CsErrPaths}
      \cup {Entry(p.dir, p.name, 10, 3, "file", 0, FALSE) : p \in CsErrPaths}
CsErrTrees ==
    {t \in SUBSET CsErrEntries : \A f, g \in t : PathOf(f) = PathOf(g) => f = g}

InitCsErr ==
    /\ script = "compareSizes"
    /\ pc = "main"
    /\ args \in [filter : {None}, generate_script : {FALSE}, output : {None},
                 checksum : BOOLEAN, hash_algorithm : {"blake2b"}]
    /\ disk \in [left : {[kind |-> "dir", files |-> t] : t \in CsErrTrees},
                 right : {[kind |-> "dir", files |-> t] : t \in CsErrTrees}]
    /\ raised = "none"
    /\ exit_code = -1
    /\ dry_run = TRUE /\ extensions = None
    /\ duplicates = <<>> /\ analyzed = <<>> /\ decisions = <<>>
    /\ removed_count = 0 /\ error_count = 0
    /\ left_names = <<>> /\ left_paths = <<>>
    /\ right_names = <<>> /\ right_paths = <<>>
    /\ only_in_left = <<>> /\ only_in_right = <<>>
    /\ report = None
    /\ copy_script = None
    /\ left_files = <<>> /\ right_files = <<>>
    /\ matches = {} /\ mismatches = <<>> /\ total_matches = 0
    /\ vanished = {} /\ unlinked = {} /\ os_errors = 0 /\ calls = {}
    /\ stat_failed = {}
    /\ LegacyIdle /\ CopyIdle /\ TimerIdle

\* between the scans and the comparison another process removes a file, so
\* that os.path.getsize / open on its path raises
CsFileVanishes ==
    /\ script = "compareSizes" /\ pc \in {"scan_right", "compare"}
    /\ Cardinality(vanished) < MaxVanished
    /\ \E side \in {"left", "right"} :
          \E f \in disk[side].files :
              /\ disk' = [disk EXCEPT ![side].files = @ \ {f}]
              /\ vanished' = vanished \cup {FullPath(side, f)}
    /\ UNCHANGED <<script, pc, args, raised, exit_code>>
    /\ UNCHANGED <<keepVars, cfVars, csVars>>
    /\ UNCHANGED <<unlinked, os_errors, calls, stat_failed>>
    /\ UNCHANGED libVars

----------------------------------------------------------------------------
(* python/keepLargerVersion.py, the cleanup script before its rewrite *)

\* os.path.splitext(name)[0]: the name up to its last dot, or the whole name
\* when it has no dot or nothing but dots before the last one
splitext_root(name) ==
    LET i == LastDot(name)
    IN  IF i > 0 /\ (\E k \in 1..(i - 1) : name[k] # 46)
        THEN SubSeq(name, 1, i - 1)
        ELSE name

\* list_duplicates(seq): the elements seen twice, as a set
list_duplicates(seq) ==
    {x \in ToSet(seq) : Cardinality({i \in 1..Len(seq) : seq[i] = x}) > 1}

\* filenames.index(dupe)
FirstIndex(seq, x) == SetMin({i \in 1..Len(seq) : seq[i] = x})

\* size - reversefiles.index(dupe) - 1
LastIndex(seq, x) == SetMax({i \in 1..Len(seq) : seq[i] = x})

\* a comparison that keeps the newer of two files of one size
legacy_remove_keeps_newer(file1, file2) ==
    IF file1.size > file2.size THEN PathOf(file2)
    ELSE IF file2.size > file1.size THEN PathOf(file1)
    ELSE IF file1.ctime > file2.ctime THEN PathOf(file2)
    ELSE PathOf(file1)

\* main: the if / elif chain that picks the file passed to os.remove
legacy_remove(file1, file2) ==
    IF file1.size > file2.size THEN PathOf(file2)
    ELSE IF file2.size > file1.size THEN PathOf(file1)
    ELSE IF file1.ctime < file2.ctime THEN PathOf(file2)
    ELSE PathOf(file1)

\* what os.walk(searchpath) lists: nothing unless searchpath is a directory
LegacyWalked(root) == IF root.kind = "dir" THEN root.files ELSE {}

InitLegacy ==
    /\ script = "legacy"
    /\ args = <<>>
    /\ disk \in [search : Roots(Trees(KeepPaths, KeepSizes, KeepCTimes, MaxFiles))]
    /\ StartOfRun

\* main: "Caching items", the walk that fills filenames and filepath, and
\* dupes = list_duplicates(filenames), a list made of a set
LegacyCache ==
    /\ script = "legacy" /\ pc = "main"
    /\ \E order \in WalkOrders(LegacyWalked(disk.search)) :
          /\ filenames' = [i \in 1..Len(order) |-> splitext_root(order[i].name)]
          /\ filepath' = [i \in 1..Len(order) |-> PathOf(order[i])]
    /\ \E listed \in Perms(list_duplicates(filenames')) :
          dupes' = listed
    /\ pc' = IF dupes' = <<>> THEN "done" ELSE "remove"
    /\ UNCHANGED <<script, args, disk, raised, exit_code>>
    /\ UNCHANGED <<removed_paths, file_stats>>
    /\ UNCHANGED <<keepVars, cfVars, csVars, traceVars, copyVars, timerVars>>

\* main: one pass of "for dupe in dupes"
LegacyRemoveDupe ==
    /\ script = "legacy" /\ pc = "remove"
    /\ LET dupe == dupes[Len(removed_paths) + 1]
           file1 == Stat(disk.search.files, filepath[FirstIndex(filenames, dupe)])
           file2 == Stat(disk.search.files, filepath[LastIndex(filenames, dupe)])
           gone == legacy_remove(file1, file2)
       IN  /\ file_stats' = [file1 |-> PathOf(file1), file2 |-> PathOf(file2),
                             file1size |-> file1.size, file2size |-> file2.size,
                             file1create |-> IF file1.size = file2.size
                                             THEN <<file1.ctime>> ELSE None,
                             file2create |-> IF file1.size = file2.size
                                             THEN <<file2.ctime>> ELSE None]
           /\ disk' = [disk EXCEPT !.search.files = {f \in @ : PathOf(f) # gone}]
           /\ removed_paths' = Append(removed_paths, gone)
    /\ pc' = IF Len(removed_paths') = Len(dupes) THEN "recount" ELSE "remove"
    /\ UNCHANGED <<script, args, raised, exit_code>>
    /\ UNCHANGED <<filenames, filepath, dupes>>
    /\ UNCHANGED <<keepVars, cfVars, csVars, traceVars, copyVars, timerVars>>

\* main: the second walk, "items after the cleanup"
LegacyRecount ==
    /\ script = "legacy" /\ pc = "recount"
    /\ \E order \in WalkOrders(LegacyWalked(disk.search)) :
          filenames' = [i \in 1..Len(order) |-> splitext_root(order[i].name)]
    /\ pc' = "done"
    /\ UNCHANGED <<script, args, disk, raised, exit_code>>
    /\ UNCHANGED <<filepath, dupes, removed_paths, file_stats>>
    /\ UNCHANGED <<keepVars, cfVars, csVars, traceVars, copyVars, timerVars>>

NextLegacy == LegacyCache \/ LegacyRemoveDupe \/ LegacyRecount
SpecLegacy == InitLegacy /\ [][NextLegacy]_vars

----------------------------------------------------------------------------
(* lib/copyFile.py *)

\* "a.txt", "s.txt", "t.txt", ".backup" and "a.txt.backup"
a_txt == <<97, 46, 116, 120, 116>>
s_txt == <<115, 46, 116, 120, 116>>
t_txt == <<116, 46, 116, 120, 116>>
dot_backup == <<46, 98, 97, 99, 107, 117, 112>>
a_txt_backup == a_txt \o dot_backup

\* the files a caller names as source and as destination: two sources of
\* their own, the destination, and the destination's first backup
SrcNames == {s_txt, t_txt, a_txt, a_txt_backup}
DstNames == {a_txt, a_txt_backup}

\* str(counter) inside the f-string
RECURSIVE Str(_)
Str(n) == IF n < 10 THEN <<48 + n>> ELSE Str(n \div 10) \o <<48 + (n % 10)>>

\* Path.with_suffix(suffix): the name without its suffix, then the new one
with_suffix(name, suffix) ==
    SubSeq(name, 1, Len(name) - Len(Suffix(name))) \o suffix

\* the files after "open(path, 'wb')" and the writes: path holds content
Written(files, path, content) ==
    [n \in DOMAIN files \cup {path} |-> IF n = path THEN content ELSE files[n]]

\* the files after path.unlink()
Unlinked(files, path) == [n \in DOMAIN files \ {path} |-> files[n]]

\* a choice of backup path that does not look for an existing backup
backup_path_ignores_existing(files, dst, backup_suffix) ==
    with_suffix(dst, Suffix(dst) \o backup_suffix)

\* copy_file_with_backup: backup_path after the "while backup_path.exists()"
\* loop
backup_path(files, dst, backup_suffix) ==
    LET first == with_suffix(dst, Suffix(dst) \o backup_suffix)
        numbered(counter) ==
            with_suffix(dst, Suffix(dst) \o backup_suffix \o <<46>> \o Str(counter))
        free == {c \in 1..(Cardinality(DOMAIN files) + 1) :
                    numbered(c) \notin DOMAIN files}
    IN  IF first \notin DOMAIN files THEN first ELSE numbered(SetMin(free))

\* copy_file(src, dst, overwrite=...): the exception raised and the files
\* afterwards; io_error says whether a read or write fails inside the try
copy_file(files, src, dst, overwrite, io_error) ==
    IF src \notin DOMAIN files
    THEN [raised |-> "FileNotFoundError", files |-> files]
    ELSE IF src = dst
    THEN [raised |-> "ValueError", files |-> files]
    ELSE IF dst \in DOMAIN files /\ ~overwrite
    THEN [raised |-> "FileExistsError", files |-> files]
    ELSE IF io_error
    THEN [raised |-> "OSError", files |-> Unlinked(files, dst)]
    ELSE [raised |-> "none", files |-> Written(files, dst, files[src])]

InitCopy ==
    /\ script = "copyFile"
    /\ pc = "idle"
    /\ args = <<>>
    /\ disk = <<>>
    /\ folder \in {(s_txt :> 1) @@ (t_txt :> 2),
                   (s_txt :> 1) @@ (t_txt :> 2) @@ (a_txt :> 0)}
    /\ backup = None /\ overwritten = {} /\ backups = {} /\ n_calls = 0
    /\ raised = "none"
    /\ exit_code = -1
    /\ dry_run = TRUE /\ extensions = None
    /\ duplicates = <<>> /\ analyzed = <<>> /\ decisions = <<>>
    /\ removed_count = 0 /\ error_count = 0
    /\ left_names = <<>> /\ left_paths = <<>>
    /\ right_names = <<>> /\ right_paths = <<>>
    /\ only_in_left = <<>> /\ only_in_right = <<>>
    /\ report = None
    /\ copy_script = None
    /\ left_files = <<>> /\ right_files = <<>>
    /\ matches = {} /\ mismatches = <<>> /\ total_matches = 0
    /\ vanished = {} /\ unlinked = {} /\ os_errors = 0 /\ calls = {}
    /\ stat_failed = {}
    /\ LegacyIdle /\ TimerIdle

\* copy_file_with_backup up to its last line: the backup of a destination
\* that exists; shutil.copy2 may fail and its exception leaves the function
CopyBackup ==
    /\ script = "copyFile" /\ pc = "idle"
    /\ n_calls < MaxCalls
    /\ n_calls' = n_calls + 1
    /\ \E src \in SrcNames, dst \in DstNames, overwrite, copy2_fails \in BOOLEAN :
          /\ args' = [src |-> src, dst |-> dst, overwrite |-> overwrite]
          /\ IF dst \notin DOMAIN folder
             THEN /\ backup' = None
                  /\ raised' = "none"
                  /\ pc' = "copy_file"
                  /\ UNCHANGED <<folder, overwritten, backups>>
             ELSE IF copy2_fails
             THEN /\ backup' = None
                  /\ raised' = "OSError"
                  /\ pc' = "idle"
                  /\ UNCHANGED <<folder, overwritten, backups>>
             ELSE LET path == backup_path(folder, dst, dot_backup)
                  IN  /\ backup' = [path |-> path,
                                    existed |-> path \in DOMAIN folder,
                                    content |-> folder[dst]]
                      /\ folder' = Written(folder, path, folder[dst])
                      /\ overwritten' = overwritten \cup {folder[dst]}
                      /\ backups' = backups \cup {path}
                      /\ raised' = "none"
                      /\ pc' = "copy_file"
    /\ UNCHANGED <<script, disk, exit_code>>
    /\ UNCHANGED <<keepVars, cfVars, csVars, traceVars, legacyVars, timerVars>>

\* copy_file_with_backup: return copy_file(src, dst, **kwargs)
CopyFile ==
    /\ script = "copyFile" /\ pc = "copy_file"
    /\ \E io_error \in BOOLEAN :
          LET r == copy_file(folder, args.src, args.dst, args.overwrite, io_error)
          IN  /\ folder' = r.files
              /\ raised' = r.raised
    /\ pc' = "idle"
    /\ UNCHANGED <<script, args, disk, exit_code>>
    /\ UNCHANGED <<backup, overwritten, backups, n_calls>>
    /\ UNCHANGED <<keepVars, cfVars, csVars, traceVars, legacyVars, timerVars>>

NextCopy == CopyBackup \/ CopyFile
SpecCopy == InitCopy /\ [][NextCopy]_vars

----------------------------------------------------------------------------
(* development/timer.py: class Stopwatch *)

\* the label arguments tried: None (or ""), and "split"
split == <<115, 112, 108, 105, 116>>
LapLabels == {None, split}

\* the attributes of a Stopwatch
Stopwatch == [start_time |-> start_time, end_time |-> end_time,
              lap_times |-> lap_times]

\* Stopwatch.start(), timeit.default_timer() returning now
start(sw, now) ==
    [raised |-> "none",
     sw |-> [start_time |-> Some(now), end_time |-> None, lap_times |-> <<>>]]

\* a lap() that also refuses to run on a stopped stopwatch
lap_refuses_after_stop(sw, now, label) ==
    IF sw.start_time = None \/ sw.end_time # None
    THEN [raised |-> "RuntimeError", sw |-> sw]
    ELSE [raised |-> "none",
          sw |-> [sw EXCEPT !.lap_times = Append(@, [label |-> label, time |-> now])]]

\* Stopwatch.lap(label): label or f"Lap {len(self.lap_times) + 1}"
lap(sw, now, label) ==
    IF sw.start_time = None
    THEN [raised |-> "RuntimeError", sw |-> sw]
    ELSE [raised |-> "none",
          sw |-> [sw EXCEPT !.lap_times =
                     Append(@, [label |-> IF label # <<>> THEN label
                                          ELSE <<76, 97, 112, 32>>
                                                 \o Str(Len(sw.lap_times) + 1),
                                time |-> now])]]

\* Stopwatch.stop()
stop(sw, now) ==
    IF sw.start_time = None
    THEN [raised |-> "RuntimeError", sw |-> sw]
    ELSE [raised |-> "none", sw |-> [sw EXCEPT !.end_time = Some(now)]]

\* Stopwatch.reset()
reset(sw) ==
    [raised |-> "none",
     sw |-> [start_time |-> None, end_time |-> None, lap_times |-> <<>>]]

\* a Stopwatch has been constructed
InitTimer ==
    /\ script = "timer"
    /\ args = <<>>
    /\ disk = <<>>
    /\ StartOfRun

\* the attributes and the clock after a call that returned r; the clock has
\* moved on if the call has read it
AfterCall(r, read_clock) ==
    /\ start_time' = r.sw.start_time
    /\ end_time' = r.sw.end_time
    /\ lap_times' = r.sw.lap_times
    /\ raised' = r.raised
    /\ clock' = IF read_clock THEN clock + 1 ELSE clock

SwStart ==
    /\ script = "timer" /\ clock < MaxClock
    /\ AfterCall(start(Stopwatch, clock), TRUE)
    /\ started' = TRUE
    /\ command' = "start"
    /\ UNCHANGED <<script, pc, args, disk, exit_code>>
    /\ UNCHANGED <<keepVars, cfVars, csVars, traceVars, legacyVars, copyVars>>

SwLap ==
    /\ script = "timer" /\ clock < MaxClock
    /\ \E label \in LapLabels :
          LET r == lap(Stopwatch, clock, label)
          IN  AfterCall(r, r.raised = "none")
    /\ command' = "lap"
    /\ UNCHANGED <<script, pc, args, disk, exit_code>>
    /\ UNCHANGED started
    /\ UNCHANGED <<keepVars, cfVars, csVars, traceVars, legacyVars, copyVars>>

SwStop ==
    /\ script = "timer" /\ clock < MaxClock
    /\ LET r == stop(Stopwatch, clock)
       IN  AfterCall(r, r.raised = "none")
    /\ command' = "stop"
    /\ UNCHANGED <<script, pc, args, disk, exit_code>>
    /\ UNCHANGED started
    /\ UNCHANGED <<keepVars, cfVars, csVars, traceVars, legacyVars, copyVars>>

SwReset ==
    /\ script = "timer"
    /\ AfterCall(reset(Stopwatch), FALSE)
    /\ started' = FALSE
    /\ command' = "reset"
    /\ UNCHANGED <<script, pc, args, disk, exit_code>>
    /\ UNCHANGED <<keepVars, cfVars, csVars, traceVars, legacyVars, copyVars>>

\* Stopwatch.status(): reads the clock while the stopwatch runs
SwStatus ==
    /\ script = "timer" /\ clock < MaxClock
    /\ AfterCall([raised |-> "none", sw |-> Stopwatch],
                 start_time # None /\ end_time = None)
    /\ command' = "status"
    /\ UNCHANGED <<script, pc, args, disk, exit_code>>
    /\ UNCHANGED started
    /\ UNCHANGED <<keepVars, cfVars, csVars, traceVars, legacyVars, copyVars>>

NextTimer == SwStart \/ SwLap \/ SwStop \/ SwReset \/ SwStatus
SpecTimer == InitTimer /\ [][NextTimer]_vars

----------------------------------------------------------------------------
(* One invocation of one script *)

\* one run of keepLargerVersion.py
NextKeep ==
    \/ KeepParseArgs
    \/ KeepFindDuplicates
    \/ KeepAnalyze
    \/ KeepProcessGroup
    \/ KeepSummary
    \/ KeepInterrupt

SpecKeep == InitKeep /\ [][NextKeep]_vars

\* what an earlier run has left in the file at the output path
EarlierReport == DifferenceLines(<<b_txt>>, <<>>)

\* compareFolders.py started while the output file holds an earlier report
InitCfReport ==
    /\ script = "compareFolders"
    /\ pc = "main"
    /\ args \in [filter : CompareFilterArgs, no_subdirs : BOOLEAN]
    /\ disk \in [left : Roots(Trees(ComparePaths, {10}, {3}, MaxTreeFiles)),
                 right : Roots(Trees(ComparePaths, {10}, {3}, MaxTreeFiles))]
    /\ raised = "none"
    /\ exit_code = -1
    /\ dry_run = TRUE /\ extensions = None
    /\ duplicates = <<>> /\ analyzed = <<>> /\ decisions = <<>>
    /\ removed_count = 0 /\ error_count = 0
    /\ left_names = <<>> /\ left_paths = <<>>
    /\ right_names = <<>> /\ right_paths = <<>>
    /\ only_in_left = <<>> /\ only_in_right = <<>>
    /\ report = EarlierReport
    /\ copy_script = None
    /\ left_files = <<>> /\ right_files = <<>>
    /\ matches = {} /\ mismatches = <<>> /\ total_matches = 0
    /\ vanished = {} /\ unlinked = {} /\ os_errors = 0 /\ calls = {}
    /\ stat_failed = {}
    /\ LegacyIdle /\ CopyIdle /\ TimerIdle

\* one run of compareFolders.py
NextCf ==
    \/ CfScanLeft
    \/ CfScanRight
    \/ CfFindDifferences
    \/ CfWriteReport
    \/ CfSummary
    \/ CfInterrupt

SpecCf == InitCf /\ [][NextCf]_vars
SpecCfReport == InitCfReport /\ [][NextCf]_vars

\* one run of compareSizes.py
NextCs ==
    \/ CsScanLeft
    \/ CsScanRight
    \/ CsCompareFiles
    \/ CsWriteReport
    \/ CsSummary
    \/ CsInterrupt

SpecCsTree == InitCsTree /\ [][NextCs]_vars

\* one run of keepLargerVersion.py beside a process that removes files
NextKeepErr ==
    \/ NextKeep
    \/ KeepFileVanishes

SpecKeepErr == InitKeepErr /\ [][NextKeepErr]_vars

\* one run of compareSizes.py beside a process that removes files
NextCsErr ==
    \/ NextCs
    \/ CsFileVanishes

SpecCsErr == InitCsErr /\ [][NextCsErr]_vars

Init == InitKeep \/ InitCf \/ InitCs

Next == NextKeep \/ NextCf \/ NextCs

Spec == Init /\ [][Next]_vars

\* one run of one script on directories with links and pipes
SpecSpecial == InitSpecial /\ [][Next]_vars

\* the two comparison scripts on trees that no other process touches, the
\* trees of compareSizes.py holding up to two names that differ in content
InitUnmodified == InitCf \/ InitCsErr
NextUnmodified == NextCf \/ NextCs
SpecUnmodified == InitUnmodified /\ [][NextUnmodified]_vars

----------------------------------------------------------------------------
(* Properties of keepLargerVersion.py *)

\* the (path, size, creation_time) record of path p in a group
RecordOf(file_info, p) == CHOOSE r \in ToSet(file_info) : r.path = p

\* no two records of the group have both the same size and creation time
NoFullTie(file_info) ==
    \A i, j \in 1..Len(file_info) :
        i # j => ~(/\ file_info[i].size = file_info[j].size
                   /\ file_info[i].ctime = file_info[j].ctime)

\* two records of maximal size and, among those, minimal creation time
TiedAtTop(file_info) ==
    \E i, j \in 1..Len(file_info) :
        /\ i # j
        /\ file_info[i].size = file_info[j].size
        /\ file_info[i].ctime = file_info[j].ctime
        /\ \A k \in 1..Len(file_info) :
              ~SortKeyLess(file_info[k], file_info[i])

\* the orders in which a walk can deliver the records of a group
ScanOrders(file_info) ==
    {p \in Perms(ToSet(file_info)) :
        \A i, j \in 1..Len(p) :
            i < j => ~(p[i].path.dir # "" /\ p[j].path.dir = "")}

\* C1: in every processed duplicate group (two or more records) the kept
\* record has maximal size and, among the records of maximal size, minimal
\* creation time: no discarded record is larger than the kept one, and none
\* has the kept record's size with a strictly older creation time.
C1_KeepsLargestThenOldest ==
    \A n \in 1..Len(decisions) :
        LET d == decisions[n]
            kept == RecordOf(d.file_info, d.keep_file)
        IN  /\ Len(d.file_info) >= 2
            /\ \A i \in 1..Len(d.file_info) :
                  /\ d.file_info[i].size <= kept.size
                  /\ d.file_info[i].size = kept.size
                        => d.file_info[i].ctime >= kept.ctime
            /\ \A i \in 1..Len(d.remove_files) :
                  LET r == RecordOf(d.file_info, d.remove_files[i])
                  IN  /\ r.size <= kept.size
                      /\ ~(r.size = kept.size /\ r.ctime < kept.ctime)

\* a group of three was decided, the kept record was not delivered first, and
\* a discarded record has the kept record's size and a newer creation time
C1_Witness ==
    \E n \in 1..Len(decisions) :
        LET d == decisions[n]
            kept == RecordOf(d.file_info, d.keep_file)
        IN  /\ Len(d.file_info) = 3
            /\ d.file_info[1].path # d.keep_file
            /\ \E i \in 1..Len(d.file_info) :
                  /\ d.file_info[i].size = kept.size
                  /\ d.file_info[i].ctime > kept.ctime
            /\ \E i \in 1..Len(d.file_info) : d.file_info[i].size < kept.size

\* C2: for every processed group in which no two records have both the same
\* size and the same creation time, every permutation of the group's records
\* yields the same kept path and the same set of discarded paths.
C2_OrderIndependentWithoutTies ==
    \A n \in 1..Len(decisions) :
        LET d == decisions[n]
        IN  NoFullTie(d.file_info) =>
                \A p \in Perms(ToSet(d.file_info)) :
                    /\ decide_which_to_keep(p).keep_file = d.keep_file
                    /\ ToSet(decide_which_to_keep(p).remove_files)
                          = ToSet(d.remove_files)

\* a tie-free group of three in which two records have the same size, so that
\* the creation time decides between them
C2_Witness ==
    \E n \in 1..Len(decisions) :
        LET d == decisions[n]
        IN  /\ Len(d.file_info) = 3
            /\ NoFullTie(d.file_info)
            /\ \E i, j \in 1..3 :
                  /\ i # j
                  /\ d.file_info[i].size = d.file_info[j].size
                  /\ d.file_info[i].path = d.keep_file

\* C3: when two or more records of a group are tied on both size and
\* creation time at the top of the order, the kept path is the same for
\* every order in which the walk can deliver the group's paths.
C3_TieKeepIsOrderIndependent ==
    \A n \in 1..Len(decisions) :
        LET d == decisions[n]
        IN  TiedAtTop(d.file_info) =>
                \A p \in ScanOrders(d.file_info) :
                    decide_which_to_keep(p).keep_file = d.keep_file

\* C4: for every processed group of n >= 2 records there is one kept path and
\* exactly n-1 discarded paths; the kept path is not discarded, no path is
\* discarded twice, and kept plus discarded are exactly the group's paths.
C4_KeepAndDiscardPartition ==
    \A n \in 1..Len(decisions) :
        LET d == decisions[n]
            paths == {d.file_info[i].path : i \in 1..Len(d.file_info)}
        IN  /\ Len(d.file_info) >= 2
            /\ Cardinality(paths) = Len(d.file_info)
            /\ Len(d.remove_files) = Len(d.file_info) - 1
            /\ Cardinality(ToSet(d.remove_files)) = Len(d.remove_files)
            /\ d.keep_file \notin ToSet(d.remove_files)
            /\ {d.keep_file} \cup ToSet(d.remove_files) = paths

\* a group of three records was decided
C4_Witness ==
    \E n \in 1..Len(decisions) :
        /\ Len(decisions[n].file_info) = 3
        /\ Len(decisions[n].remove_files) = 2

\* C5: without --execute main runs remove_duplicate_files with dry_run=True
\* and no step of the run changes the files under the search path; a step
\* that removes a file is taken only with dry_run False.
C5_DryRunDeletesNothing ==
    [][/\ (script = "keepLargerVersion" /\ ~args.execute) => disk' = disk
       /\ disk' # disk =>
             (script = "keepLargerVersion" /\ args.execute /\ ~dry_run)]_vars

\* a dry run that ended normally and reported files it would remove
C5_Witness ==
    /\ script = "keepLargerVersion"
    /\ ~args.execute /\ dry_run
    /\ pc = "done" /\ raised = "none"
    /\ removed_count > 0
    /\ Cardinality(disk.search.files) = 3

\* the run has ended with an exception that left remove_duplicate_files
RaisedToCaller == raised \notin {"none", "KeyboardInterrupt"}

\* C18: when remove_duplicate_files ends by raising to its caller, no file
\* has been deleted in that run.
C18_RaiseBeforeAnyDeletion ==
    (script = "keepLargerVersion" /\ RaisedToCaller) => unlinked = {}

\* the kept record of a decision is tied on size and creation time with a
\* record that is removed
KeptTiedWithRemoved(d) ==
    LET kept == RecordOf(d.file_info, d.keep_file)
    IN  \E i \in 1..Len(d.file_info) :
            /\ d.file_info[i].path # d.keep_file
            /\ d.file_info[i].size = kept.size
            /\ d.file_info[i].ctime = kept.ctime

\* the groups made of the same paths with any sizes and creation times
SamePaths(file_info) ==
    {alt \in [1..Len(file_info) ->
                 [path : {file_info[i].path : i \in 1..Len(file_info)},
                  size : KeepSizes, ctime : KeepCTimes]] :
        \A i \in 1..Len(file_info) : alt[i].path = file_info[i].path}

\* the kept record of the group beats every other by size or creation time
DecidedBySizeOrAge(file_info) ==
    LET kept == RecordOf(file_info, decide_which_to_keep(file_info).keep_file)
    IN  \A i \in 1..Len(file_info) :
            file_info[i] # kept => SortKeyLess(kept, file_info[i])

\* what a run prints and counts for a group whose files are on disk as
\* analysed
GroupOutput(base_name, file_info, dry, verbose) ==
    LET d == decide_which_to_keep(file_info)
        files == {File(file_info[i].path.dir, file_info[i].path.name,
                       file_info[i].size, file_info[i].ctime) :
                    i \in 1..Len(file_info)}
        r == RemoveFiles(files, d.remove_files, dry)
    IN  [printed |-> DecisionLines(base_name, file_info, d.keep_file,
                                   RecordOf(file_info, d.keep_file).size, verbose)
                       \o r.printed,
         removed |-> r.removed,
         errors |-> r.errors]

\* C19: what the run prints or counts for a group whose kept and removed
\* records are tied on size and creation time differs from what it prints
\* and counts for the same paths decided by larger size or older creation
\* time.
C19_TieSurfacedDistinctly ==
    script = "keepLargerVersion" =>
        \A n \in 1..Len(decisions) :
            LET d == decisions[n]
            IN  (KeptTiedWithRemoved(d) /\ vanished = {}) =>
                    /\ d.printed = GroupOutput(d.base_name, d.file_info,
                                               dry_run, args.verbose).printed
                    /\ \A alt \in SamePaths(d.file_info) :
                          DecidedBySizeOrAge(alt) =>
                              GroupOutput(d.base_name, alt, dry_run, args.verbose)
                                # GroupOutput(d.base_name, d.file_info,
                                              dry_run, args.verbose)

\* C20: every OSError caught for a single file during the cleanup is in the
\* returned error count, and a run that caught one ends with exit code 1.
C20_PerFileErrorsCounted ==
    script = "keepLargerVersion" =>
        /\ error_count = os_errors
        /\ (pc = "done" /\ raised = "none" /\ os_errors > 0) => exit_code = 1

----------------------------------------------------------------------------
(* Properties of compareFolders.py and compareSizes.py *)

\* the position of the run is behind the scan of the left / of both trees
LeftScanned ==
    \/ pc \in {"scan_right", "compare", "report", "summary"}
    \/ pc = "done" /\ raised = "none"
BothScanned ==
    \/ pc \in {"compare", "report", "summary"}
    \/ pc = "done" /\ raised = "none"
\* the position of the run is behind find_differences / compare_files
Compared ==
    \/ pc \in {"report", "summary"}
    \/ pc = "done" /\ raised = "none"

\* name ends with ext, letters compared without regard to case
EndsWithIgnoringCase(name, ext) ==
    /\ Len(ext) <= Len(name)
    /\ \A i \in 1..Len(ext) :
          LowerChar(name[Len(name) - Len(ext) + i]) = LowerChar(ext[i])

\* the files of a tree that a scan with this filter has to return
Expected(files, filter_extension, recursive) ==
    {f \in files :
        /\ recursive \/ f.dir = ""
        /\ \/ filter_extension = None
           \/ filter_extension = Some(<<>>)
           \/ EndsWithIgnoringCase(f.name, filter_extension[1])}

\* C6: once the matcher has run, only_left = left - right and
\* only_right = right - left (compareFolders) and both = left intersect right
\* (compareSizes); the three sets are pairwise disjoint and their union is
\* left union right.
C6_MatcherSets ==
    /\ (script = "compareFolders" /\ Compared) =>
          LET L == ToSet(left_names)
              R == ToSet(right_names)
              OL == ToSet(only_in_left)
              OR == ToSet(only_in_right)
              both == L \cap R
          IN  /\ OL = L \ R
              /\ OR = R \ L
              /\ OL \cap OR = {} /\ OL \cap both = {} /\ OR \cap both = {}
              /\ OL \cup OR \cup both = L \cup R
    /\ (script = "compareSizes" /\ Compared) =>
          LET L == DOMAIN left_files
              R == DOMAIN right_files
          IN  /\ matches = L \cap R
              /\ total_matches = Cardinality(L \cap R)
              /\ matches \cap (L \ R) = {} /\ matches \cap (R \ L) = {}
              /\ (L \ R) \cup (R \ L) \cup matches = L \cup R

\* compareFolders found names on the left only, on the right only, and on
\* both sides
C6_Witness ==
    /\ script = "compareFolders" /\ Compared
    /\ only_in_left # <<>> /\ only_in_right # <<>>
    /\ ToSet(left_names) \cap ToSet(right_names) # {}

\* C7: the only_left and only_right lists of find_differences are in strictly
\* ascending lexicographic order (so no name occurs twice), whatever the
\* order in which the scans delivered the names.
C7_DifferencesSorted ==
    (script = "compareFolders" /\ Compared) =>
        /\ \A i, j \in 1..Len(only_in_left) :
              i < j => StrLess(only_in_left[i], only_in_left[j])
        /\ \A i, j \in 1..Len(only_in_right) :
              i < j => StrLess(only_in_right[i], only_in_right[j])

\* two names are only on the left; the scan delivered the greater one first
\* and one of them twice
C7_Witness ==
    /\ script = "compareFolders" /\ Compared
    /\ Len(only_in_left) = 2
    /\ Len(left_names) = 3
    /\ StrLess(left_names[2], left_names[1])

\* C8: a finished run exits with 0 exactly when it completed without an
\* exception or interrupt and found no difference (compareFolders: only_left
\* and only_right empty; compareSizes: no mismatch), and with 1 otherwise.
C8_ExitCodes ==
    /\ (script = "compareFolders" /\ pc = "done") =>
          /\ exit_code \in {0, 1}
          /\ exit_code = 0 <=>
                (raised = "none" /\ only_in_left = <<>> /\ only_in_right = <<>>)
    /\ (script = "compareSizes" /\ pc = "done") =>
          /\ exit_code \in {0, 1}
          /\ exit_code = 0 <=> (raised = "none" /\ Len(mismatches) = 0)

\* compareFolders completed, found a name on the right only and exited with 1
C8_Witness ==
    /\ script = "compareFolders" /\ pc = "done"
    /\ raised = "none"
    /\ only_in_left = <<>> /\ only_in_right # <<>>
    /\ exit_code = 1

\* a directory argument that is missing or not a directory
BadRoot(root) == root.kind # "dir"

\* C9: when a root is missing or not a directory its scan raises and leaves
\* no result: the run never gets past that scan, nothing is compared, no
\* report and no copy script is written, and main exits with 1.
C9_BadRootEndsRun ==
    /\ (script = "compareFolders" /\ BadRoot(disk.left)) =>
          /\ pc \in {"main", "done"}
          /\ left_names = <<>> /\ left_paths = <<>>
          /\ right_names = <<>> /\ right_paths = <<>>
    /\ (script = "compareFolders" /\ BadRoot(disk.right)) =>
          /\ pc \in {"main", "scan_right", "done"}
          /\ right_names = <<>> /\ right_paths = <<>>
    /\ (script = "compareSizes" /\ BadRoot(disk.left)) =>
          /\ pc \in {"main", "done"}
          /\ left_files = <<>> /\ right_files = <<>>
    /\ (script = "compareSizes" /\ BadRoot(disk.right)) =>
          /\ pc \in {"main", "scan_right", "done"}
          /\ right_files = <<>>
    /\ (script = "keepLargerVersion" /\ BadRoot(disk.search)) =>
          /\ pc \in {"main", "find", "done"}
          /\ duplicates = <<>> /\ analyzed = <<>> /\ decisions = <<>>
          /\ removed_count = 0
          /\ pc = "done" => (exit_code = 1
                             /\ raised \in {"ValueError", "KeyboardInterrupt"})
    /\ (/\ script \in {"compareFolders", "compareSizes"}
        /\ BadRoot(disk.left) \/ BadRoot(disk.right)) =>
          /\ only_in_left = <<>> /\ only_in_right = <<>>
          /\ matches = {} /\ mismatches = <<>> /\ total_matches = 0
          /\ report = None /\ copy_script = None
          /\ pc = "done" => (exit_code = 1
                             /\ raised \in {"ValueError", "KeyboardInterrupt"})

\* compareFolders scanned a left tree with files, then the scan of a right
\* root that is a plain file raised ValueError
C9_Witness ==
    /\ script = "compareFolders" /\ pc = "done"
    /\ disk.right.kind = "file"
    /\ left_names # <<>>
    /\ raised = "ValueError" /\ exit_code = 1

\* C10: a scan returns exactly the files in its scope (the whole tree, or the
\* root's own files for a non-recursive scan) whose name ends with the filter,
\* compared case-insensitively, and every file when the filter is empty or
\* absent: scan_directory returns each such file once, with its name;
\* scan_directory_for_comparison returns each such name, mapped to a file of
\* that name that passes the filter.
C10_ExtensionFilter ==
    /\ (script = "compareFolders" /\ LeftScanned) =>
          LET want == Expected(disk.left.files, args.filter, ~args.no_subdirs)
          IN  /\ ToSet(left_paths) = {FullPath("left", f) : f \in want}
              /\ Len(left_paths) = Cardinality(want)
              /\ Len(left_names) = Len(left_paths)
              /\ \A i \in 1..Len(left_paths) : left_names[i] = left_paths[i].name
    /\ (script = "compareFolders" /\ BothScanned) =>
          LET want == Expected(disk.right.files, args.filter, ~args.no_subdirs)
          IN  /\ ToSet(right_paths) = {FullPath("right", f) : f \in want}
              /\ Len(right_paths) = Cardinality(want)
              /\ Len(right_names) = Len(right_paths)
              /\ \A i \in 1..Len(right_paths) : right_names[i] = right_paths[i].name
    /\ (script = "compareSizes" /\ LeftScanned) =>
          LET want == Expected(disk.left.files, args.filter, TRUE)
          IN  /\ DOMAIN left_files = {f.name : f \in want}
              /\ \A n \in DOMAIN left_files :
                    /\ left_files[n].name = n
                    /\ left_files[n] \in {FullPath("left", f) : f \in want}
    /\ (script = "compareSizes" /\ BothScanned /\ copy_script = None) =>
          LET want == Expected(disk.right.files, args.filter, TRUE)
          IN  /\ DOMAIN right_files = {f.name : f \in want}
              /\ \A n \in DOMAIN right_files :
                    /\ right_files[n].name = n
                    /\ right_files[n] \in {FullPath("right", f) : f \in want}

\* the filter ".mov" over a left tree of a.mov, b.txt and c.MOV returned
\* a.mov and c.MOV
C10_Witness ==
    /\ script = "compareFolders" /\ LeftScanned
    /\ args.filter = Some(dot_mov)
    /\ {f.name : f \in disk.left.files} = {a_mov, b_txt, c_MOV}
    /\ ToSet(left_names) = {a_mov, c_MOV}

\* the entry at a full path that is still on disk
EntryAt(path) == CHOOSE f \in Lookup(disk, path) : TRUE
\* the names in the mismatch list
MismatchNames == {mismatches[i].filename : i \in 1..Len(mismatches)}
\* both files of the matched name n are on disk
PairOnDisk(n) ==
    Lookup(disk, left_files[n]) # {} /\ Lookup(disk, right_files[n]) # {}

\* C11: with size comparison and no read error, the mismatch list of
\* compare_files holds exactly the names present in both maps whose two files
\* have different sizes, each of them once.
C11_SizeMismatchesExact ==
    (/\ script = "compareSizes" /\ Compared
     /\ ~args.checksum
     /\ \A c \in calls : c.ok) =>
        /\ \A n \in matches : PairOnDisk(n)
        /\ MismatchNames =
              {n \in matches :
                  EntryAt(left_files[n]).size # EntryAt(right_files[n]).size}
        /\ \A i, j \in 1..Len(mismatches) :
              mismatches[i].filename = mismatches[j].filename => i = j

\* a size comparison without errors of two matched names, one with equal
\* sizes (not listed) and one with different sizes (listed)
C11_Witness ==
    /\ script = "compareSizes" /\ Compared
    /\ ~args.checksum
    /\ \A c \in calls : c.ok
    /\ matches = {a_mov, b_txt}
    /\ Cardinality(MismatchNames) = 1
    /\ \E n \in matches \ MismatchNames :
          EntryAt(left_files[n]).size = EntryAt(right_files[n]).size

\* C12: when a read of one side of a matched pair fails, the run goes on to
\* the remaining pairs and the failed pair is in the returned mismatch list.
C12_FailedPairIsMismatch ==
    (script = "compareSizes" /\ Compared) =>
        /\ \A n \in matches : \E c \in calls : c.path = left_files[n]
        /\ \A c \in calls : ~c.ok => c.path.name \in MismatchNames

\* C14: with checksum comparison a matched pair is in the mismatch list
\* exactly if the contents of its two files differ, whatever their sizes.
C14_ChecksumMismatchesExact ==
    (script = "compareSizes" /\ Compared /\ args.checksum) =>
        \A n \in matches :
            PairOnDisk(n) =>
                (n \in MismatchNames <=>
                    Data(EntryAt(left_files[n])) # Data(EntryAt(right_files[n])))

\* C15: compare_files hashes the files of a pair exactly if use_checksum is
\* True; with use_checksum False every pair is read with getsize only.
C15_StrategyAsRequested ==
    (script = "compareSizes" /\ Compared) =>
        /\ \A c \in calls :
              c.op = IF args.checksum THEN "hash_for_file" ELSE "getsize"
        /\ \A n \in matches :
              /\ \E c \in calls : c.path = left_files[n]
              /\ (\E c \in calls : c.path = left_files[n] /\ c.ok) =>
                    \E c \in calls : c.path = right_files[n]

\* a size comparison has passed a pair of equal size and different content
C15_Witness ==
    /\ script = "compareSizes" /\ Compared
    /\ ~args.checksum
    /\ \E n \in matches \ MismatchNames :
          /\ PairOnDisk(n)
          /\ Data(EntryAt(left_files[n])) # Data(EntryAt(right_files[n]))
          /\ [op |-> "getsize", path |-> left_files[n], ok |-> TRUE] \in calls
          /\ [op |-> "getsize", path |-> right_files[n], ok |-> TRUE] \in calls

\* the two directory arguments name trees of the same relative paths and
\* the same bytes
IdenticalTrees ==
    /\ disk.left.kind = "dir" /\ disk.right.kind = "dir"
    /\ disk.left.files = disk.right.files

\* C13: for identical trees, also when a name occurs in several
\* subdirectories with different sizes, and for every order of the walks, the
\* comparison reports no mismatch and empty only-left and only-right lists.
C13_IdenticalTreesEqual ==
    /\ (script = "compareSizes" /\ Compared /\ IdenticalTrees) => mismatches = <<>>
    /\ (script = "compareFolders" /\ Compared /\ IdenticalTrees) =>
          only_in_left = <<>> /\ only_in_right = <<>>

\* a step leaves every file of both trees as it was and adds no copy of one
FilesUntouched ==
    \A side \in {"left", "right"} :
        /\ \A f \in disk[side].files : f \in disk'[side].files
        /\ \A f \in disk'[side].files \ disk[side].files :
              \A g \in disk.left.files \cup disk.right.files : Data(f) # Data(g)

\* a step leaves every file of both trees as it was, fix_mismatches.py in
\* the root of the right tree excepted, and adds no other file
FilesUntouchedButScript ==
    /\ disk'.left = disk.left
    /\ \A f \in disk.right.files :
          f \in disk'.right.files \/ (f.dir = "" /\ f.name = fix_mismatches_py)
    /\ \A f \in disk'.right.files \ disk.right.files : f = ScriptFile(mismatches)
    /\ disk'.right # disk.right => (args.generate_script /\ mismatches # <<>>)

\* a script exists only if asked for and a mismatch exists; it holds one
\* entry per mismatch, from its left path to its right path
ScriptAsClaimed ==
    copy_script # None =>
        /\ args.generate_script
        /\ Len(mismatches) >= 1
        /\ Len(copy_script) = Len(mismatches)
        /\ \A i \in 1..Len(mismatches) :
              /\ copy_script[i].src = left_files[mismatches[i].filename]
              /\ copy_script[i].dst = right_files[mismatches[i].filename]
              /\ copy_script[i].src.root = "left"
              /\ copy_script[i].dst.root = "right"

\* C16 as claimed: compare_directories copies, modifies or deletes no file
\* in either tree; a script is written only when generate_script is True and
\* a mismatch exists, with one left-to-right copy entry per mismatch.
C16_ScriptIsDataOnly ==
    [][script = "compareSizes" => (FilesUntouched /\ ScriptAsClaimed')]_vars

\* C16: compare_directories copies, modifies or deletes no file in either
\* tree other than fix_mismatches.py in the root of the right tree, which it
\* creates or overwrites when generate_script is True and a mismatch exists;
\* the script is written only then, with one left-to-right copy entry per
\* mismatch.
C16_ScriptIsDataOnlyButItsFile ==
    [][script = "compareSizes" => (FilesUntouchedButScript /\ ScriptAsClaimed')]_vars

\* a script of two entries has replaced the fix_mismatches.py of the right
\* tree
C16_Witness ==
    /\ script = "compareSizes" /\ pc = "summary"
    /\ copy_script # None /\ Len(copy_script) = 2
    /\ ScriptFile(mismatches) \in disk.right.files
    /\ \E i \in 1..Len(mismatches) : mismatches[i].filename = fix_mismatches_py

\* the regular files of a tree
RegularFiles(files) == {f \in files : f.kind = "file"}

\* C17: the names and paths returned by scan_directory,
\* scan_directory_for_comparison and find_duplicate_names are those of
\* regular files, never of a symbolic link or a special file, and an entry
\* of that kind does not make the scan fail.
C17_ScansReturnRegularFilesOnly ==
    /\ (script = "compareFolders" /\ LeftScanned) =>
          \A i \in 1..Len(left_paths) :
              left_paths[i] \in {FullPath("left", f) : f \in RegularFiles(disk.left.files)}
    /\ (script = "compareFolders" /\ BothScanned) =>
          \A i \in 1..Len(right_paths) :
              right_paths[i] \in {FullPath("right", f) : f \in RegularFiles(disk.right.files)}
    /\ (script = "compareSizes" /\ LeftScanned) =>
          \A n \in DOMAIN left_files :
              left_files[n] \in {FullPath("left", f) : f \in RegularFiles(disk.left.files)}
    /\ (script = "compareSizes" /\ BothScanned /\ copy_script = None) =>
          \A n \in DOMAIN right_files :
              right_files[n] \in {FullPath("right", f) : f \in RegularFiles(disk.right.files)}
    /\ (script = "keepLargerVersion" /\ unlinked = {}) =>
          \A i \in 1..Len(duplicates) :
              \A j \in 1..Len(duplicates[i].paths) :
                  duplicates[i].paths[j]
                      \in {PathOf(f) : f \in RegularFiles(disk.search.files)}
    /\ (\A r \in DOMAIN disk : disk[r].kind = "dir") =>
          raised \in {"none", "KeyboardInterrupt"}

\* the entry of the name n that a walk visits last
LastVisited(order, n) ==
    order[SetMax({i \in 1..Len(order) : order[i].name = n})]

\* C22: scan_directory_for_comparison maps every distinct filename found
\* under the root (and passing the filter) to exactly one path, the path of
\* the entry of that name the walk visits last; the maps the run holds are
\* maps of that kind.
C22_OnePathPerNameLastWins ==
    script = "compareSizes" =>
        /\ \A side \in {"left", "right"} :
              disk[side].kind = "dir" =>
                  \A order \in WalkOrders(disk[side].files) :
                      LET m == scan_directory_for_comparison(
                                   side, disk[side], args.filter, order).file_map
                          names == {f.name : f \in {g \in disk[side].files :
                                        PassesFilter(args.filter, g.name)}}
                      IN  /\ DOMAIN m = names
                          /\ \A n \in names :
                                m[n] = FullPath(side, LastVisited(order, n))
        /\ LeftScanned =>
              \E order \in WalkOrders(disk.left.files) :
                  \A n \in DOMAIN left_files :
                      left_files[n] = FullPath("left", LastVisited(order, n))

\* the left tree holds a.mov in sub1 and in sub2, sub1 was walked last and
\* its a.mov is the one in the map
C22_Witness ==
    /\ script = "compareSizes" /\ LeftScanned
    /\ {f.dir : f \in {g \in disk.left.files : g.name = a_mov}} = {"sub1", "sub2"}
    /\ left_files[a_mov].dir = "sub1"

\* the files find_duplicate_names scans: files passing the extension filter
Scanned(files, exts) ==
    {f \in files : IsFile(f) /\ (exts = <<>> \/ Lower(Suffix(f.name)) \in ToSet(exts))}

\* dups holds exactly the stems two or more scanned files share, each once,
\* each with all the scanned files of that stem
GroupsAsClaimed(dups, scanned) ==
    /\ \A i, j \in 1..Len(dups) : dups[i].name = dups[j].name => i = j
    /\ {dups[i].name : i \in 1..Len(dups)}
         = {Stem(f.name) : f \in {g \in scanned :
                \E h \in scanned : h # g /\ Stem(h.name) = Stem(g.name)}}
    /\ \A i \in 1..Len(dups) :
          /\ ToSet(dups[i].paths)
               = {PathOf(f) : f \in {g \in scanned : Stem(g.name) = dups[i].name}}
          /\ Len(dups[i].paths) = Cardinality(ToSet(dups[i].paths))
          /\ Len(dups[i].paths) >= 2

\* C23: find_duplicate_names returns exactly the stems shared by two or more
\* scanned files, each mapped to all scanned files with that stem: no group
\* has fewer than two paths and no scanned file sharing its stem is left out.
C23_DuplicateGroupsExact ==
    (script = "keepLargerVersion" /\ pc # "main" /\ disk.search.kind = "dir") =>
        /\ \A order \in WalkOrders(disk.search.files) :
              LET r == find_duplicate_names(disk.search, extensions, order)
              IN  /\ r.raised = "none"
                  /\ GroupsAsClaimed(r.duplicates,
                                     Scanned(disk.search.files, extensions))
        /\ (pc # "find" /\ raised = "none" /\ unlinked = {}) =>
              GroupsAsClaimed(duplicates, Scanned(disk.search.files, extensions))

\* one group of two was found next to a scanned file of a stem of its own
C23_Witness ==
    /\ script = "keepLargerVersion" /\ pc = "analyze"
    /\ Len(duplicates) = 1 /\ Len(duplicates[1].paths) = 2
    /\ \E f \in Scanned(disk.search.files, extensions) :
          Stem(f.name) # duplicates[1].name

\* C24: the itemized mismatches are reported in ascending order of filename:
\* the list compare_files returns, and with it the written report and the
\* generated copy script, is sorted by filename whatever the order in which
\* the matched names are visited.
C24_MismatchesSortedByName ==
    (script = "compareSizes" /\ Compared) =>
        /\ \A i, j \in 1..Len(mismatches) :
              i < j => StrLess(mismatches[i].filename, mismatches[j].filename)
        /\ report # None => SubSeq(report, 2, Len(report)) = mismatches
        /\ copy_script # None => copy_script = CopyEntries(mismatches)

\* remove_duplicate_files has returned from a run that deletes, with no error
CleanedUp ==
    /\ script = "keepLargerVersion" /\ pc \in {"summary", "done"}
    /\ raised = "none" /\ ~dry_run /\ error_count = 0

\* C25: after remove_duplicate_files has run with dry_run = False and zero
\* errors on a tree nobody else modifies, exactly one file of every duplicate
\* group survives, the one decide_which_to_keep chose; no two remaining files
\* passing the extension filter share a stem, and a second run finds no
\* duplicate group, so it removes nothing.
C25_OneSurvivorPerGroup ==
    CleanedUp =>
        /\ Len(decisions) = Len(duplicates)
        /\ \A i \in 1..Len(duplicates) :
              /\ decisions[i].base_name = duplicates[i].name
              /\ decisions[i].keep_file
                   = decide_which_to_keep(decisions[i].file_info).keep_file
              /\ {p \in ToSet(duplicates[i].paths) : Exists(disk.search.files, p)}
                   = {decisions[i].keep_file}
        /\ \A f, g \in Scanned(disk.search.files, extensions) :
              Stem(f.name) = Stem(g.name) => f = g
        /\ disk.search.kind = "dir" =>
              \A order \in WalkOrders(disk.search.files) :
                  find_duplicate_names(disk.search, extensions, order).duplicates = <<>>

\* a run that deleted two files of a group of three and ended with code 0
C25_Witness ==
    /\ CleanedUp /\ pc = "done" /\ exit_code = 0
    /\ Len(decisions) = 1 /\ Len(decisions[1].remove_files) = 2
    /\ removed_count = 2
    /\ Cardinality(Scanned(disk.search.files, extensions)) = 1

\* the paths of a group that analyze_duplicates could stat
StatOk(paths) == ToSet(paths) \ stat_failed

\* C26: a file whose stat fails in analyze_duplicates takes no part in the
\* decision: it is neither the kept file nor in a discard list; when fewer
\* than two files of a group can be stat-ed the group is dropped and none of
\* its files is deleted.
C26_StatFailureTakesNoPart ==
    script = "keepLargerVersion" =>
        /\ \A i \in 1..Len(analyzed) :
              \A j \in 1..Len(analyzed[i].file_info) :
                  analyzed[i].file_info[j].path \notin stat_failed
        /\ \A i \in 1..Len(decisions) :
              /\ decisions[i].keep_file \notin stat_failed
              /\ ToSet(decisions[i].remove_files) \cap stat_failed = {}
        /\ \A i \in 1..Len(duplicates) :
              Cardinality(StatOk(duplicates[i].paths)) < 2 =>
                  /\ \A j \in 1..Len(analyzed) :
                        analyzed[j].base_name # duplicates[i].name
                  /\ \A j \in 1..Len(decisions) :
                        decisions[j].base_name # duplicates[i].name
                  /\ ToSet(duplicates[i].paths) \cap unlinked = {}

\* one file of a group of three could not be stat-ed; the other two were
\* decided on and one of them was deleted
C26_Witness ==
    /\ script = "keepLargerVersion" /\ ~dry_run
    /\ \E i \in 1..Len(duplicates) :
          /\ Len(duplicates[i].paths) = 3
          /\ Cardinality(StatOk(duplicates[i].paths)) = 2
          /\ \E j \in 1..Len(decisions) :
                /\ decisions[j].base_name = duplicates[i].name
                /\ ToSet(decisions[j].remove_files) \subseteq unlinked
                /\ Len(decisions[j].remove_files) = 1

\* C21: scanning and matching are idempotent.  A second scan of an unmodified
\* tree with the same filter returns the set of names the first scan
\* returned, whatever the order of the walk; a second call of find_differences
\* on the two scan results returns the same only-left and only-right lists; a
\* second call of compare_files on the two scan results returns the same
\* matches and the same mismatch entries (the list itself when the names are
\* visited in the order of the first call).
C21_ScanAndMatchIdempotent ==
    /\ (script = "compareFolders" /\ LeftScanned) =>
          \A order \in WalkOrders(disk.left.files) :
              ToSet(scan_directory("left", disk.left, args.filter,
                                   ~args.no_subdirs, order).filenames)
                = ToSet(left_names)
    /\ (script = "compareFolders" /\ BothScanned) =>
          \A order \in WalkOrders(disk.right.files) :
              ToSet(scan_directory("right", disk.right, args.filter,
                                   ~args.no_subdirs, order).filenames)
                = ToSet(right_names)
    /\ (script = "compareFolders" /\ Compared) =>
          find_differences(ToSet(left_names), ToSet(right_names))
            = [only_in_left |-> only_in_left, only_in_right |-> only_in_right]
    /\ (script = "compareSizes" /\ LeftScanned) =>
          \A order \in WalkOrders(disk.left.files) :
              DOMAIN scan_directory_for_comparison("left", disk.left, args.filter,
                                                   order).file_map
                = DOMAIN left_files
    /\ (script = "compareSizes" /\ BothScanned /\ copy_script = None) =>
          \A order \in WalkOrders(disk.right.files) :
              DOMAIN scan_directory_for_comparison("right", disk.right, args.filter,
                                                   order).file_map
                = DOMAIN right_files
    /\ (script = "compareSizes" /\ Compared /\ copy_script = None) =>
          /\ \A order \in Perms(DOMAIN left_files \cap DOMAIN right_files) :
                LET r == compare_files(disk, left_files, right_files, args.checksum,
                                       args.hash_algorithm, order)
                IN  /\ r.matches = matches
                    /\ Cardinality(r.matches) = total_matches
                    /\ ToSet(r.mismatches) = ToSet(mismatches)
                    /\ Len(r.mismatches) = Len(mismatches)
          /\ \E order \in Perms(DOMAIN left_files \cap DOMAIN right_files) :
                compare_files(disk, left_files, right_files, args.checksum,
                              args.hash_algorithm, order).mismatches = mismatches

\* compare_files has returned two mismatches, so that the order of the visit
\* shows in its result
C21_Witness ==
    /\ script = "compareSizes" /\ Compared /\ copy_script = None
    /\ Len(mismatches) = 2
    /\ Cardinality(matches) >= 2

\* C28: compare_directories of compareFolders.py writes the differences
\* report only when it found a difference, and then the file holds the new
\* lines alone, not the previous ones followed by them; when the two trees
\* hold the same names it returns (0, 0) and the file at the output path
\* stays as it was.
C28_ReportReplacedOnlyOnDifferences ==
    [][script = "compareFolders" =>
          /\ (pc = "report" /\ pc' = "summary") =>
                /\ Len(only_in_left) + Len(only_in_right) > 0
                /\ report' = DifferenceLines(only_in_left, only_in_right)
          /\ ~(pc = "report" /\ pc' = "summary") => report' = report
          /\ (pc = "compare" /\ pc' # "done"
                /\ ToSet(left_names) = ToSet(right_names)) =>
                /\ only_in_left' = <<>> /\ only_in_right' = <<>>
                /\ pc' = "summary"
                /\ report' = report]_vars

\* a run that found names on both sides only has ended: the file holds its
\* report and nothing of the earlier one
C28_Witness ==
    /\ script = "compareFolders" /\ pc = "done" /\ raised = "none"
    /\ only_in_left # <<>> /\ only_in_right # <<>>
    /\ report = DifferenceLines(only_in_left, only_in_right)
    /\ \A i \in 1..Len(report) : report[i].name # b_txt

----------------------------------------------------------------------------
(* Properties of python/keepLargerVersion.py against its rewrite *)

\* the group the rewritten script forms for the stem, when the walk delivers
\* the files in the given order
GroupOf(root, order, stem) ==
    SelectSeq(analyze_duplicates(find_duplicate_names(root, <<>>, order).duplicates,
                                 root.files),
              LAMBDA g : g.base_name = stem)

\* C27: on a stem shared by exactly two files that differ in size or in
\* creation time, the file the old main() removes is the file
\* decide_which_to_keep puts in its discard list, and the other one is kept
\* by both.
C27_LegacyDecidesAlike ==
    [][(script = "legacy" /\ pc = "remove") =>
          LET dupe == dupes[Len(removed_paths) + 1]
              group == {f \in disk.search.files : splitext_root(f.name) = dupe}
          IN  (/\ Cardinality(group) = 2
               /\ \E f, g \in group : f.size # g.size \/ f.ctime # g.ctime) =>
                  \A order \in WalkOrders(disk.search.files) :
                      LET found == GroupOf(disk.search, order, dupe)
                          d == decide_which_to_keep(found[1].file_info)
                      IN  /\ Len(found) = 1
                          /\ {found[1].file_info[i].path :
                                 i \in 1..Len(found[1].file_info)}
                               = {PathOf(f) : f \in group}
                          /\ d.remove_files = <<removed_paths'[Len(removed_paths')]>>
                          /\ Exists(disk'.search.files, d.keep_file)
                          /\ ~Exists(disk'.search.files, d.remove_files[1])]_vars

\* the old script found two files of one size under a stem, the one walked
\* first being the newer, and removed that one
C27_Witness ==
    /\ script = "legacy" /\ pc = "done"
    /\ Len(dupes) = 1
    /\ Cardinality({i \in 1..Len(filepath) :
                       splitext_root(filepath[i].name) = dupes[1]}) = 2
    /\ file_stats # None
    /\ file_stats.file1size = file_stats.file2size
    /\ file_stats.file1create[1] > file_stats.file2create[1]
    /\ removed_paths = <<file_stats.file1>>
    /\ Exists(disk.search.files, file_stats.file2)

----------------------------------------------------------------------------
(* Properties of lib/copyFile.py *)

\* C29: copy_file_with_backup never loses the previous destination content
\* and never writes a backup over an earlier one: the backup path did not
\* exist before the call, the backup holds the destination's content before
\* the destination is overwritten, and after any sequence of calls every
\* content a destination had is still held by some backup file.
C29_BackupsKeepEveryContent ==
    script = "copyFile" =>
        /\ backup # None =>
              /\ ~backup.existed
              /\ backup.path \in backups
        /\ (pc = "copy_file" /\ backup # None) =>
              /\ args.dst \in DOMAIN folder
              /\ folder[args.dst] = backup.content
              /\ backup.path \in DOMAIN folder
              /\ folder[backup.path] = backup.content
        /\ \A c \in overwritten :
              \E n \in backups \cap DOMAIN folder : folder[n] = c

\* three calls have each found the destination with another content; the
\* three contents lie in three backup files
C29_Witness ==
    /\ script = "copyFile" /\ pc = "idle" /\ raised = "none"
    /\ overwritten = {0, 1, 2}
    /\ Cardinality(backups) = 3
    /\ a_txt_backup \o <<46, 49>> \in backups

----------------------------------------------------------------------------
(* Properties of development/timer.py *)

\* C30: in every sequence of Stopwatch calls, lap() and stop() raise
\* RuntimeError exactly when start() has not been called since construction
\* or since the last reset(), and then start_time, end_time and lap_times
\* stay as they were; start() always clears end_time and the recorded laps.
C30_RaisesExactlyWhenNotStarted ==
    [][script = "timer" =>
          /\ command' \in {"lap", "stop"} =>
                /\ raised' = "RuntimeError" <=> ~started
                /\ raised' # "RuntimeError" => raised' = "none"
                /\ raised' = "RuntimeError" =>
                      UNCHANGED <<start_time, end_time, lap_times>>
          /\ command' = "start" =>
                /\ raised' = "none"
                /\ start_time' # None
                /\ end_time' = None
                /\ lap_times' = <<>>]_vars

\* lap() has raised on a stopwatch that was started, stopped and reset
C30_Witness ==
    /\ script = "timer" /\ command = "lap" /\ raised = "RuntimeError"
    /\ ~started /\ clock >= 2
    /\ start_time = None /\ end_time = None /\ lap_times = <<>>

============================================================================
